---- MODULE Spec2Model ----
(***************************************************************************)
(* Column-value normalization of common/services/monday.py:                *)
(* MondayService.parse_value (type dispatcher, formula evaluator, mirror   *)
(* aggregator) and MondayService.parse_item_column_values (item column     *)
(* normalizer).                                                            *)
(*                                                                         *)
(* Python objects are tagged records (field k is the Python type).        *)
(* Python strings are sequences of one-character strings, so that          *)
(* int(), float(), str(), json.loads, re.findall, str.replace and the      *)
(* expression evaluator are computed character by character.               *)
(* A Python float is modelled by the exact rational it denotes             *)
(* (numerator n, denominator d > 0, in lowest terms).                      *)
(***************************************************************************)
EXTENDS Integers, Sequences, FiniteSets, TLC

VARIABLES item, pc, call, firestore, session

vars == <<item, pc, call, firestore, session>>

(***************************************************************************)
(* Bounds of the model.                                                    *)
(***************************************************************************)
\* longest column_values list of an input item
MaxCols == 3
\* depth of nested parse_value frames after which the interpreter's
\* recursion limit is taken to be hit (RecursionError)
MaxDepth == 4

(***************************************************************************)
(* Python values.                                                          *)
(***************************************************************************)
None == [k |-> "none"]
PBool(x) == [k |-> "bool", b |-> x]
PInt(x) == [k |-> "int", n |-> x]
PStr(x) == [k |-> "str", s |-> x]
PList(x) == [k |-> "list", l |-> x]
\* a dict is its items in insertion order: <<[key |-> chars, val |-> value], ...>>
PDict(x) == [k |-> "dict", kv |-> x]

\* Let(v, LAMBDA x : e) is e with x bound to the value v, v computed once
Let(v, K(_)) == K(v)

Abs(x) == IF x < 0 THEN -x ELSE x

RECURSIVE GCD(_, _)
GCD(a, b) == IF b = 0 THEN a ELSE GCD(b, a % b)

\* the float n/d, d # 0, in lowest terms with a positive denominator
PFloat(x, y) ==
  LET g == GCD(Abs(x), Abs(y))
      sgn == IF y < 0 THEN -1 ELSE 1
  IN [k |-> "float", n |-> (sgn * x) \div g, d |-> Abs(y) \div g]

IsNum(v) == v.k \in {"int", "float"}
\* numerator and denominator of a number
Num(v) == v.n
Den(v) == IF v.k = "float" THEN v.d ELSE 1

\* Python truthiness: bool(v)
Truthy(v) ==
  CASE v.k = "none" -> FALSE
    [] v.k = "bool" -> v.b
    [] v.k = "int" -> v.n # 0
    [] v.k = "float" -> v.n # 0
    [] v.k = "str" -> v.s # <<>>
    [] v.k = "list" -> v.l # <<>>
    [] v.k = "dict" -> v.kv # <<>>

\* outcome of a computation: a value, or a raised exception with its message
Ok(v) == [ok |-> TRUE, v |-> v]
Raise(m) == [ok |-> FALSE, msg |-> m]

(***************************************************************************)
(* Strings.                                                                *)
(***************************************************************************)
Digits == {"0", "1", "2", "3", "4", "5", "6", "7", "8", "9"}
Letters == {"a", "b", "c", "d", "e", "f", "g", "h", "i", "j", "k", "l", "m",
            "n", "o", "p", "q", "r", "s", "t", "u", "v", "w", "x", "y", "z",
            "A", "B", "C", "D", "E", "F", "G", "H", "I", "J", "K", "L", "M",
            "N", "O", "P", "Q", "R", "S", "T", "U", "V", "W", "X", "Y", "Z"}
\* \w of the re module (ASCII part)
WordChars == Digits \cup Letters \cup {"_"}

DigitVal(c) ==
  CASE c = "0" -> 0 [] c = "1" -> 1 [] c = "2" -> 2 [] c = "3" -> 3
    [] c = "4" -> 4 [] c = "5" -> 5 [] c = "6" -> 6 [] c = "7" -> 7
    [] c = "8" -> 8 [] c = "9" -> 9

DigitChar(n) ==
  CASE n = 0 -> "0" [] n = 1 -> "1" [] n = 2 -> "2" [] n = 3 -> "3"
    [] n = 4 -> "4" [] n = 5 -> "5" [] n = 6 -> "6" [] n = 7 -> "7"
    [] n = 8 -> "8" [] n = 9 -> "9"

\* s[i..] and s[i..j] (1-based, inclusive), empty when out of range
From(s, i) == SubSeq(s, i, Len(s))
Slice(s, i, j) == SubSeq(s, i, j)

\* s.startswith(p, i-1)
StartsAt(s, p, i) ==
  /\ i >= 1
  /\ i + Len(p) - 1 <= Len(s)
  /\ SubSeq(s, i, i + Len(p) - 1) = p

\* p in s
Contains(s, p) == \E i \in 1..(Len(s) + 1) : StartsAt(s, p, i)

\* s.replace(old, new), old non-empty: leftmost non-overlapping occurrences
RECURSIVE Replace(_, _, _)
Replace(s, old, new) ==
  IF s = <<>> THEN <<>>
  ELSE IF StartsAt(s, old, 1)
       THEN new \o Replace(From(s, Len(old) + 1), old, new)
       ELSE <<Head(s)>> \o Replace(Tail(s), old, new)

\* s.split(sep), sep non-empty: a non-empty sequence of strings
RECURSIVE SplitAcc(_, _, _)
SplitAcc(s, sep, cur) ==
  IF s = <<>> THEN <<cur>>
  ELSE IF StartsAt(s, sep, 1)
       THEN <<cur>> \o SplitAcc(From(s, Len(sep) + 1), sep, <<>>)
       ELSE SplitAcc(Tail(s), sep, Append(cur, Head(s)))

Split(s, sep) == SplitAcc(s, sep, <<>>)

\* s.strip() for the blank character
RECURSIVE LStrip(_)
LStrip(s) == IF s # <<>> /\ Head(s) = " " THEN LStrip(Tail(s)) ELSE s

RECURSIVE RStrip(_)
RStrip(s) ==
  IF s # <<>> /\ s[Len(s)] = " " THEN RStrip(SubSeq(s, 1, Len(s) - 1)) ELSE s

Strip(s) == RStrip(LStrip(s))

AllDigits(s) == \A i \in 1..Len(s) : s[i] \in Digits

\* value of a digit string (0 for the empty string)
RECURSIVE DigitsVal(_)
DigitsVal(s) ==
  IF s = <<>> THEN 0
  ELSE 10 * DigitsVal(SubSeq(s, 1, Len(s) - 1)) + DigitVal(s[Len(s)])

RECURSIVE Pow10(_)
Pow10(e) == IF e = 0 THEN 1 ELSE 10 * Pow10(e - 1)

\* int(s) of a str: surrounding blanks, one optional sign, decimal digits;
\* anything else raises ValueError
int_of(s) ==
  Let(Strip(s), LAMBDA t :
    LET signed == t # <<>> /\ Head(t) \in {"-", "+"}
        body == IF signed THEN Tail(t) ELSE t
    IN IF body = <<>> \/ ~AllDigits(body) THEN Raise("ValueError")
       ELSE Ok(PInt(IF signed /\ Head(t) = "-" THEN -DigitsVal(body)
                   ELSE DigitsVal(body))))

\* float(s) of a str: surrounding blanks, optional sign, digits with at most
\* one "." and at least one digit; anything else raises ValueError
\* (exponents and the spellings inf/nan are outside the input alphabet)
float_of(s) ==
  Let(Strip(s), LAMBDA t :
  Let(t # <<>> /\ Head(t) \in {"-", "+"}, LAMBDA signed :
  Let(IF signed THEN Tail(t) ELSE t, LAMBDA body :
  Let({i \in 1..Len(body) : body[i] = "."}, LAMBDA dots :
  Let(IF dots = {} THEN Len(body) + 1 ELSE CHOOSE i \in dots : TRUE, LAMBDA dot :
  Let(SubSeq(body, 1, dot - 1), LAMBDA ip :
  Let(SubSeq(body, dot + 1, Len(body)), LAMBDA fp :
  Let(DigitsVal(ip) * Pow10(Len(fp)) + DigitsVal(fp), LAMBDA mag :
    IF \/ Cardinality(dots) > 1
       \/ ~AllDigits(ip) \/ ~AllDigits(fp)
       \/ Len(ip) + Len(fp) = 0
    THEN Raise("ValueError")
    ELSE Ok(PFloat(IF signed /\ Head(t) = "-" THEN -mag ELSE mag,
                  Pow10(Len(fp))))))))))))

\* decimal digits of a natural number
RECURSIVE NatStr(_)
NatStr(n) ==
  IF n < 10 THEN <<DigitChar(n)>>
  ELSE Append(NatStr(n \div 10), DigitChar(n % 10))

IntStr(n) == IF n < 0 THEN <<"-">> \o NatStr(-n) ELSE NatStr(n)

\* digits of the fraction r/d (0 <= r < d), at most m of them
RECURSIVE FracStr(_, _, _)
FracStr(r, d, m) ==
  IF r = 0 \/ m = 0 THEN <<>>
  ELSE <<DigitChar((10 * r) \div d)>> \o FracStr((10 * r) % d, d, m - 1)

\* repr of a float: integer part, ".", fraction digits ("7.0", "3.5", "-0.25");
\* exact for the floats with a short decimal expansion
FloatStr(v) ==
  Let(FracStr(Abs(v.n) % v.d, v.d, 16), LAMBDA frac :
    (IF v.n < 0 THEN <<"-">> ELSE <<>>)
       \o NatStr(Abs(v.n) \div v.d) \o <<".">>
       \o (IF frac = <<>> THEN <<"0">> ELSE frac))

(***************************************************************************)
(* json.loads and is_json.                                                 *)
(* A parse step returns [ok, v, i]: the value read and the position after  *)
(* it. Read: null, true, false, numbers, strings (escapes \" \\ \/),       *)
(* arrays and objects, with blanks between tokens.                         *)
(***************************************************************************)
JFail == [ok |-> FALSE, v |-> None, i |-> 0]
JOk(v, i) == [ok |-> TRUE, v |-> v, i |-> i]

RECURSIVE SkipWs(_, _)
SkipWs(s, i) == IF i <= Len(s) /\ s[i] = " " THEN SkipWs(s, i + 1) ELSE i

\* first position >= i holding no digit
RECURSIVE DigitsEnd(_, _)
DigitsEnd(s, i) ==
  IF i <= Len(s) /\ s[i] \in Digits THEN DigitsEnd(s, i + 1) ELSE i

\* the string body from position i (after the opening quote) to the closing quote
RECURSIVE JString(_, _, _)
JString(s, i, acc) ==
  IF i > Len(s) THEN JFail
  ELSE IF s[i] = "\"" THEN JOk(PStr(acc), i + 1)
  ELSE IF s[i] = "\\"
       THEN IF i + 1 <= Len(s) /\ s[i + 1] \in {"\"", "\\", "/"}
            THEN JString(s, i + 2, Append(acc, s[i + 1]))
            ELSE JFail
  ELSE JString(s, i + 1, Append(acc, s[i]))

\* a JSON number at position i: -? int (. digits)?, no leading zeros
JNumber(s, i) ==
  Let(i <= Len(s) /\ s[i] = "-", LAMBDA neg :
  Let(IF neg THEN i + 1 ELSE i, LAMBDA a :
  Let(DigitsEnd(s, a), LAMBDA b :
  Let(SubSeq(s, a, b - 1), LAMBDA ip :
  Let(b <= Len(s) /\ s[b] = ".", LAMBDA hasFrac :
  Let(IF hasFrac THEN DigitsEnd(s, b + 1) ELSE b, LAMBDA c :
  Let(SubSeq(s, b + 1, c - 1), LAMBDA fp :
  Let(DigitsVal(ip) * Pow10(Len(fp)) + DigitsVal(fp), LAMBDA mag :
    IF ip = <<>> \/ (Len(ip) > 1 /\ ip[1] = "0") \/ (hasFrac /\ fp = <<>>)
    THEN JFail
    ELSE IF hasFrac
         THEN JOk(PFloat(IF neg THEN -mag ELSE mag, Pow10(Len(fp))), c)
         ELSE JOk(PInt(IF neg THEN -mag ELSE mag), c)))))))))

\* d[key] = val on a dict's items (a repeated key keeps its place, last value wins)
DictPut(kv, key, val) ==
  IF \E j \in 1..Len(kv) : kv[j].key = key
  THEN [j \in 1..Len(kv) |->
          IF kv[j].key = key THEN [key |-> key, val |-> val] ELSE kv[j]]
  ELSE Append(kv, [key |-> key, val |-> val])

RECURSIVE JValue(_, _)
RECURSIVE JArray(_, _, _)
RECURSIVE JObject(_, _, _)

JValue(s, i0) ==
  Let(SkipWs(s, i0), LAMBDA i :
    IF i > Len(s) THEN JFail
    ELSE IF StartsAt(s, <<"n", "u", "l", "l">>, i) THEN JOk(None, i + 4)
    ELSE IF StartsAt(s, <<"t", "r", "u", "e">>, i) THEN JOk(PBool(TRUE), i + 4)
    ELSE IF StartsAt(s, <<"f", "a", "l", "s", "e">>, i)
         THEN JOk(PBool(FALSE), i + 5)
    ELSE IF s[i] = "\"" THEN JString(s, i + 1, <<>>)
    ELSE IF s[i] = "["
         THEN Let(SkipWs(s, i + 1), LAMBDA j :
                IF j <= Len(s) /\ s[j] = "]" THEN JOk(PList(<<>>), j + 1)
                ELSE JArray(s, j, <<>>))
    ELSE IF s[i] = "{"
         THEN Let(SkipWs(s, i + 1), LAMBDA j :
                IF j <= Len(s) /\ s[j] = "}" THEN JOk(PDict(<<>>), j + 1)
                ELSE JObject(s, j, <<>>))
    ELSE JNumber(s, i))

\* the elements of an array from position i, acc the elements read so far
JArray(s, i, acc) ==
  Let(JValue(s, i), LAMBDA e :
  Let(SkipWs(s, e.i), LAMBDA j :
    IF ~e.ok \/ j > Len(s) THEN JFail
    ELSE IF s[j] = "]" THEN JOk(PList(Append(acc, e.v)), j + 1)
    ELSE IF s[j] = "," THEN JArray(s, j + 1, Append(acc, e.v))
    ELSE JFail))

\* the members of an object from position i, acc the items read so far
JObject(s, i, acc) ==
  Let(SkipWs(s, i), LAMBDA a :
  Let(IF a <= Len(s) /\ s[a] = "\"" THEN JString(s, a + 1, <<>>) ELSE JFail,
      LAMBDA key :
  Let(SkipWs(s, key.i), LAMBDA c :
  Let(IF key.ok /\ c <= Len(s) /\ s[c] = ":" THEN JValue(s, c + 1) ELSE JFail,
      LAMBDA val :
  Let(SkipWs(s, val.i), LAMBDA j :
    IF ~val.ok \/ j > Len(s) THEN JFail
    ELSE IF s[j] = "}" THEN JOk(PDict(DictPut(acc, key.v.s, val.v)), j + 1)
    ELSE IF s[j] = "," THEN JObject(s, j + 1, DictPut(acc, key.v.s, val.v))
    ELSE JFail)))))

\* json.loads(s) of a str: the value, or ValueError (json.JSONDecodeError)
json_loads(s) ==
  Let(JValue(s, 1), LAMBDA r :
    IF r.ok /\ SkipWs(s, r.i) = Len(s) + 1 THEN Ok(r.v) ELSE Raise("ValueError"))

\* common.core.utils.is_json
is_json(value) ==
  IF ~Truthy(value) THEN FALSE
  ELSE IF value.k # "str" THEN FALSE
  ELSE json_loads(value.s).ok

\* d.get(key) and key in d
DictHas(d, key) == \E j \in 1..Len(d.kv) : d.kv[j].key = key
DictGet(d, key) ==
  IF DictHas(d, key)
  THEN d.kv[CHOOSE j \in 1..Len(d.kv) : d.kv[j].key = key].val
  ELSE None

(***************************************************************************)
(* Arithmetic and comparison of Python numbers (bool counts as int).       *)
(***************************************************************************)
IsNumeric(v) == v.k \in {"int", "float", "bool"}
AsNum(v) == IF v.k = "bool" THEN PInt(IF v.b THEN 1 ELSE 0) ELSE v
IsIntLike(v) == v.k \in {"int", "bool"}

\* floor(x / y) for y # 0
FloorDiv(x, y) ==
  LET q == Abs(x) \div Abs(y)
      exact == Abs(x) % Abs(y) = 0
  IN IF (x >= 0) = (y > 0) THEN q ELSE IF exact THEN -q ELSE -(q + 1)

NumAdd(a, b) ==
  IF a.k = "int" /\ b.k = "int" THEN PInt(a.n + b.n)
  ELSE PFloat(Num(a) * Den(b) + Num(b) * Den(a), Den(a) * Den(b))

NumSub(a, b) ==
  IF a.k = "int" /\ b.k = "int" THEN PInt(a.n - b.n)
  ELSE PFloat(Num(a) * Den(b) - Num(b) * Den(a), Den(a) * Den(b))

NumMul(a, b) ==
  IF a.k = "int" /\ b.k = "int" THEN PInt(a.n * b.n)
  ELSE PFloat(Num(a) * Num(b), Den(a) * Den(b))

\* x / y: always a float; the message of ZeroDivisionError depends on the
\* operand types (int / int: "division by zero")
NumDiv(a, b) ==
  IF Num(b) = 0
  THEN Raise(IF a.k = "int" /\ b.k = "int" THEN "division by zero"
             ELSE "float division by zero")
  ELSE Ok(PFloat(Num(a) * Den(b), Den(a) * Num(b)))

\* x % y: the result has the sign of y
NumMod(a, b) ==
  IF Num(b) = 0
  THEN Raise(IF a.k = "int" /\ b.k = "int" THEN "integer modulo by zero"
             ELSE "float modulo")
  ELSE IF a.k = "int" /\ b.k = "int"
       THEN Ok(PInt(a.n - b.n * FloorDiv(a.n, b.n)))
       ELSE LET x == Num(a) * Den(b)
                y == Num(b) * Den(a)
            IN Ok(PFloat(x - y * FloorDiv(x, y), Den(a) * Den(b)))

\* x // y
NumFloorDiv(a, b) ==
  IF Num(b) = 0
  THEN Raise(IF a.k = "int" /\ b.k = "int"
             THEN "integer division or modulo by zero"
             ELSE "float floor division by zero")
  ELSE LET q == FloorDiv(Num(a) * Den(b), Num(b) * Den(a))
       IN Ok(IF a.k = "int" /\ b.k = "int" THEN PInt(q) ELSE PFloat(q, 1))

NumLess(a, b) == Num(a) * Den(b) < Num(b) * Den(a)
NumEq(a, b) == Num(a) * Den(b) = Num(b) * Den(a)

\* a == b
PyEq(a, b) ==
  IF IsNumeric(a) /\ IsNumeric(b) THEN NumEq(AsNum(a), AsNum(b))
  ELSE IF IsNumeric(a) \/ IsNumeric(b) THEN FALSE
  ELSE IF a.k # b.k THEN FALSE
  ELSE a = b

\* str(v) of a number, a bool, None or a str
PyStr(v) ==
  CASE v.k = "int" -> IntStr(v.n)
    [] v.k = "float" -> FloatStr(v)
    [] v.k = "bool" -> IF v.b THEN <<"T", "r", "u", "e">>
                       ELSE <<"F", "a", "l", "s", "e">>
    [] v.k = "none" -> <<"N", "o", "n", "e">>
    [] v.k = "str" -> v.s
    [] OTHER -> <<"<", v.k, ">">>

\* s * n
RECURSIVE RepeatStr(_, _)
RepeatStr(s, n) == IF n <= 0 THEN <<>> ELSE s \o RepeatStr(s, n - 1)

\* a op b for a binary operator of the expression language
BinOp(op, a0, b0) ==
  LET a == AsNum(a0)
      b == AsNum(b0)
      nums == IsNumeric(a0) /\ IsNumeric(b0)
  IN CASE op = "+" ->
            IF nums THEN Ok(NumAdd(a, b))
            ELSE IF a.k = "str" /\ b.k = "str" THEN Ok(PStr(a.s \o b.s))
            ELSE Raise("TypeError")
       [] op = "-" -> IF nums THEN Ok(NumSub(a, b)) ELSE Raise("TypeError")
       [] op = "*" ->
            IF nums THEN Ok(NumMul(a, b))
            ELSE IF a.k = "str" /\ IsIntLike(b0) THEN Ok(PStr(RepeatStr(a.s, b.n)))
            ELSE IF IsIntLike(a0) /\ b.k = "str" THEN Ok(PStr(RepeatStr(b.s, a.n)))
            ELSE Raise("TypeError")
       [] op = "/" -> IF nums THEN NumDiv(a, b) ELSE Raise("TypeError")
       [] op = "//" -> IF nums THEN NumFloorDiv(a, b) ELSE Raise("TypeError")
       [] op = "%" -> IF nums THEN NumMod(a, b) ELSE Raise("TypeError")
       [] op = "==" -> Ok(PBool(PyEq(a0, b0)))
       [] op = "!=" -> Ok(PBool(~PyEq(a0, b0)))
       [] op \in {"<", "<=", ">", ">="} ->
            IF ~nums THEN Raise("TypeError")
            ELSE Ok(PBool(CASE op = "<" -> NumLess(a, b)
                            [] op = "<=" -> ~NumLess(b, a)
                            [] op = ">" -> NumLess(b, a)
                            [] op = ">=" -> ~NumLess(a, b)))

(***************************************************************************)
(* simple_eval: the expression is tokenized, parsed to a tree with Python's *)
(* precedences, then evaluated left to right. A syntax error is raised      *)
(* before anything is evaluated. The power operator, subscripts, boolean    *)
(* operators and conditional expressions are not part of the formulas       *)
(* modelled.                                                                *)
(***************************************************************************)
TNum(v) == [t |-> "num", v |-> v]
TStr(v) == [t |-> "str", v |-> v]
TName(x) == [t |-> "name", s |-> x]
TOp(x) == [t |-> "op", o |-> x]

TwoCharOps == {<<"=", "=">>, <<"!", "=">>, <<"<", "=">>, <<">", "=">>, <<"/", "/">>}
OneCharOps == {"+", "-", "*", "/", "%", "<", ">", "(", ")", ",", "[", "]"}
OpName(cs) ==
  CASE cs = <<"=", "=">> -> "==" [] cs = <<"!", "=">> -> "!="
    [] cs = <<"<", "=">> -> "<=" [] cs = <<">", "=">> -> ">="
    [] cs = <<"/", "/">> -> "//"

\* first position >= i holding no word character
RECURSIVE WordEnd(_, _)
WordEnd(s, i) ==
  IF i <= Len(s) /\ s[i] \in WordChars THEN WordEnd(s, i + 1) ELSE i

\* position of the next occurrence of character q at or after i (0 if none)
RECURSIVE FindChar(_, _, _)
FindChar(s, q, i) ==
  IF i > Len(s) THEN 0 ELSE IF s[i] = q THEN i ELSE FindChar(s, q, i + 1)

\* the number literal starting at i: digits, optionally "." and digits
NumberToken(s, i) ==
  Let(DigitsEnd(s, i), LAMBDA b :
  Let(SubSeq(s, i, b - 1), LAMBDA ip :
  Let(b <= Len(s) /\ s[b] = ".", LAMBDA hasDot :
  Let(IF hasDot THEN DigitsEnd(s, b + 1) ELSE b, LAMBDA c :
  Let(SubSeq(s, b + 1, c - 1), LAMBDA fp :
    [ok |-> ~ \/ (ip = <<>> /\ fp = <<>>)
              \/ (~hasDot /\ Len(ip) > 1 /\ ip[1] = "0" /\ DigitsVal(ip) # 0),
     tok |-> IF hasDot
             THEN TNum(PFloat(DigitsVal(ip) * Pow10(Len(fp)) + DigitsVal(fp),
                              Pow10(Len(fp))))
             ELSE TNum(PInt(DigitsVal(ip))),
     i |-> c])))))

TokFail == [ok |-> FALSE, toks |-> <<>>]

RECURSIVE Tokens(_, _, _)
Tokens(s, i, acc) ==
  IF i > Len(s) THEN [ok |-> TRUE, toks |-> acc]
  ELSE IF s[i] = " " THEN Tokens(s, i + 1, acc)
  ELSE IF s[i] \in Digits \/ (s[i] = "." /\ i < Len(s) /\ s[i + 1] \in Digits)
       THEN Let(NumberToken(s, i), LAMBDA n :
              IF n.ok THEN Tokens(s, n.i, Append(acc, n.tok)) ELSE TokFail)
  ELSE IF s[i] \in Letters \cup {"_"}
       THEN Let(WordEnd(s, i), LAMBDA e :
              Tokens(s, e, Append(acc, TName(SubSeq(s, i, e - 1)))))
  ELSE IF s[i] \in {"'", "\""}
       THEN Let(FindChar(s, s[i], i + 1), LAMBDA e :
            Let(SubSeq(s, i + 1, e - 1), LAMBDA body :
              IF e = 0 \/ FindChar(body, "\\", 1) # 0 THEN TokFail
              ELSE Tokens(s, e + 1, Append(acc, TStr(PStr(body))))))
  ELSE IF i < Len(s) /\ SubSeq(s, i, i + 1) \in TwoCharOps
       THEN Tokens(s, i + 2, Append(acc, TOp(OpName(SubSeq(s, i, i + 1)))))
  ELSE IF s[i] \in OneCharOps THEN Tokens(s, i + 1, Append(acc, TOp(s[i])))
  ELSE TokFail

\* syntax trees
ANum(v) == [n |-> "const", v |-> v]
AName(x) == [n |-> "name", s |-> x]
AUn(o, x) == [n |-> "unary", o |-> o, x |-> x]
ABin(o, x, y) == [n |-> "bin", o |-> o, x |-> x, y |-> y]
\* a comparison chain x o1 y1 o2 y2 ...: ops and operands
ACmp(x, os, ys) == [n |-> "cmp", x |-> x, os |-> os, ys |-> ys]
ACall(f, as) == [n |-> "call", f |-> f, as |-> as]
AList(as) == [n |-> "list", as |-> as]

PFail == [ok |-> FALSE, a |-> ANum(None), i |-> 0]
POk(a, i) == [ok |-> TRUE, a |-> a, i |-> i]

IsOp(toks, i, ops) == i <= Len(toks) /\ toks[i].t = "op" /\ toks[i].o \in ops

RECURSIVE PExpr(_, _)
RECURSIVE PCmpRest(_, _, _, _, _)
RECURSIVE PSum(_, _)
RECURSIVE PSumRest(_, _, _)
RECURSIVE PTerm(_, _)
RECURSIVE PTermRest(_, _, _)
RECURSIVE PUnary(_, _)
RECURSIVE PAtom(_, _)
RECURSIVE PArgs(_, _, _, _)

\* comparison: sum (cmpop sum)*
PExpr(toks, i) ==
  Let(PSum(toks, i), LAMBDA l :
    IF ~l.ok THEN PFail
    ELSE IF IsOp(toks, l.i, {"==", "!=", "<", "<=", ">", ">="})
         THEN PCmpRest(toks, l.i, l.a, <<>>, <<>>)
         ELSE l)

PCmpRest(toks, i, x, os, ys) ==
  IF IsOp(toks, i, {"==", "!=", "<", "<=", ">", ">="})
  THEN Let(PSum(toks, i + 1), LAMBDA r :
         IF ~r.ok THEN PFail
         ELSE PCmpRest(toks, r.i, x, Append(os, toks[i].o), Append(ys, r.a)))
  ELSE POk(ACmp(x, os, ys), i)

\* sum: term (("+" | "-") term)*
PSum(toks, i) ==
  Let(PTerm(toks, i), LAMBDA l :
    IF ~l.ok THEN PFail ELSE PSumRest(toks, l.i, l.a))

PSumRest(toks, i, left) ==
  IF IsOp(toks, i, {"+", "-"})
  THEN Let(PTerm(toks, i + 1), LAMBDA r :
         IF ~r.ok THEN PFail
         ELSE PSumRest(toks, r.i, ABin(toks[i].o, left, r.a)))
  ELSE POk(left, i)

\* term: unary (("*" | "/" | "//" | "%") unary)*
PTerm(toks, i) ==
  Let(PUnary(toks, i), LAMBDA l :
    IF ~l.ok THEN PFail ELSE PTermRest(toks, l.i, l.a))

PTermRest(toks, i, left) ==
  IF IsOp(toks, i, {"*", "/", "//", "%"})
  THEN Let(PUnary(toks, i + 1), LAMBDA r :
         IF ~r.ok THEN PFail
         ELSE PTermRest(toks, r.i, ABin(toks[i].o, left, r.a)))
  ELSE POk(left, i)

\* unary: ("-" | "+") unary | atom
PUnary(toks, i) ==
  IF IsOp(toks, i, {"-", "+"})
  THEN Let(PUnary(toks, i + 1), LAMBDA r :
         IF ~r.ok THEN PFail ELSE POk(AUn(toks[i].o, r.a), r.i))
  ELSE PAtom(toks, i)

\* atom: number | string | name | name "(" args ")" | "(" expr ")" | "[" args "]"
PAtom(toks, i) ==
  IF i > Len(toks) THEN PFail
  ELSE IF toks[i].t \in {"num", "str"} THEN POk(ANum(toks[i].v), i + 1)
  ELSE IF toks[i].t = "name"
       THEN IF IsOp(toks, i + 1, {"("})
            THEN IF IsOp(toks, i + 2, {")"})
                 THEN POk(ACall(toks[i].s, <<>>), i + 3)
                 ELSE Let(PArgs(toks, i + 2, ")", <<>>), LAMBDA r :
                        IF r.ok THEN POk(ACall(toks[i].s, r.a.as), r.i)
                        ELSE PFail)
            ELSE POk(AName(toks[i].s), i + 1)
  ELSE IF IsOp(toks, i, {"("})
       THEN Let(PExpr(toks, i + 1), LAMBDA e :
              IF e.ok /\ IsOp(toks, e.i, {")"}) THEN POk(e.a, e.i + 1) ELSE PFail)
  ELSE IF IsOp(toks, i, {"["})
       THEN IF IsOp(toks, i + 1, {"]"}) THEN POk(AList(<<>>), i + 2)
            ELSE PArgs(toks, i + 1, "]", <<>>)
  ELSE PFail

\* expr ("," expr)* up to the closing token: a list node holding the elements
PArgs(toks, i, close, acc) ==
  Let(PExpr(toks, i), LAMBDA e :
    IF ~e.ok THEN PFail
    ELSE IF IsOp(toks, e.i, {close}) THEN POk(AList(Append(acc, e.a)), e.i + 1)
    ELSE IF IsOp(toks, e.i, {","})
         THEN IF IsOp(toks, e.i + 1, {close})
              THEN POk(AList(Append(acc, e.a)), e.i + 2)
              ELSE PArgs(toks, e.i + 1, close, Append(acc, e.a))
    ELSE PFail)

(***************************************************************************)
(* The function library handed to simple_eval (monday.py lines 711-806).   *)
(* Modelled here: the arithmetic, aggregate and branching functions; the   *)
(* text, rounding and date functions are not used by the formulas of this  *)
(* model.                                                                  *)
(***************************************************************************)
FunctionNames ==
  {"AVERAGE", "COUNT", "SUM", "MOD", "MIN", "MAX", "MINUS", "MULTIPLY",
   "DIVIDE", "IF", "SWITCH", "TRUE", "FALSE"}

\* the name of a function as a model string ("" when it is not in the library)
FnOf(cs) ==
  CASE cs = <<"A", "V", "E", "R", "A", "G", "E">> -> "AVERAGE"
    [] cs = <<"C", "O", "U", "N", "T">> -> "COUNT"
    [] cs = <<"S", "U", "M">> -> "SUM"
    [] cs = <<"M", "O", "D">> -> "MOD"
    [] cs = <<"M", "I", "N">> -> "MIN"
    [] cs = <<"M", "A", "X">> -> "MAX"
    [] cs = <<"M", "I", "N", "U", "S">> -> "MINUS"
    [] cs = <<"M", "U", "L", "T", "I", "P", "L", "Y">> -> "MULTIPLY"
    [] cs = <<"D", "I", "V", "I", "D", "E">> -> "DIVIDE"
    [] cs = <<"I", "F">> -> "IF"
    [] cs = <<"S", "W", "I", "T", "C", "H">> -> "SWITCH"
    [] cs = <<"T", "R", "U", "E">> -> "TRUE"
    [] cs = <<"F", "A", "L", "S", "E">> -> "FALSE"
    [] OTHER -> ""

\* sum(args): 0 + args[1] + args[2] + ...
RECURSIVE SumFrom(_, _, _)
SumFrom(acc, args, i) ==
  IF i > Len(args) THEN Ok(acc)
  ELSE IF ~IsNumeric(args[i]) THEN Raise("TypeError")
  ELSE SumFrom(NumAdd(acc, AsNum(args[i])), args, i + 1)

py_sum(args) == SumFrom(PInt(0), args, 1)

\* min(args) / max(args) over numbers: the first extremal argument
RECURSIVE Extremum(_, _, _, _)
Extremum(best, args, i, wantMin) ==
  IF i > Len(args) THEN best
  ELSE Extremum(IF (IF wantMin THEN NumLess(AsNum(args[i]), AsNum(best))
                    ELSE NumLess(AsNum(best), AsNum(args[i])))
                THEN args[i] ELSE best,
                args, i + 1, wantMin)

py_min_max(args, wantMin) ==
  IF args = <<>> THEN Raise("ValueError")
  ELSE IF \E i \in 1..Len(args) : ~IsNumeric(args[i]) THEN Raise("TypeError")
  ELSE Ok(Extremum(args[1], args, 2, wantMin))

\* switch_func(value, *args)
RECURSIVE SwitchScan(_, _, _)
SwitchScan(value, pairs, i) ==
  IF i > Len(pairs) THEN [found |-> FALSE, v |-> None]
  ELSE IF PyEq(pairs[i], value) THEN [found |-> TRUE, v |-> pairs[i + 1]]
  ELSE SwitchScan(value, pairs, i + 2)

\* lines 626-637 without the loop over the pairs
switch_func_default_only(value, args) ==
  IF Len(args) % 2 = 1 THEN args[Len(args)] ELSE None

switch_func(value, args) ==
  LET has_default == Len(args) % 2 = 1
      pairs == IF has_default THEN SubSeq(args, 1, Len(args) - 1) ELSE args
      default == IF has_default THEN args[Len(args)] ELSE None
  IN Let(SwitchScan(value, pairs, 1), LAMBDA hit :
       IF hit.found THEN hit.v ELSE default)

if_func(condition, true_value, false_value) ==
  IF Truthy(condition) THEN true_value ELSE false_value

\* the library function f applied to the evaluated arguments
CallFunction(f, args) ==
  LET n == Len(args)
  IN CASE f = "AVERAGE" ->
            Let(py_sum(args), LAMBDA t :
              IF ~t.ok THEN t ELSE BinOp("/", t.v, PInt(n)))
       [] f = "COUNT" -> Ok(PInt(n))
       [] f = "SUM" -> py_sum(args)
       [] f \in {"MOD", "MINUS", "MULTIPLY", "DIVIDE"} ->
            IF n # 2 THEN Raise("TypeError")
            ELSE BinOp(CASE f = "MOD" -> "%" [] f = "MINUS" -> "-"
                         [] f = "MULTIPLY" -> "*" [] f = "DIVIDE" -> "/",
                       args[1], args[2])
       [] f \in {"MIN", "MAX"} -> py_min_max(args, f = "MIN")
       [] f = "IF" -> IF n # 3 THEN Raise("TypeError")
                      ELSE Ok(if_func(args[1], args[2], args[3]))
       [] f = "SWITCH" -> IF n = 0 THEN Raise("TypeError")
                          ELSE Ok(switch_func(args[1], Tail(args)))
       [] f = "TRUE" -> IF n # 0 THEN Raise("TypeError") ELSE Ok(PBool(TRUE))
       [] f = "FALSE" -> IF n # 0 THEN Raise("TypeError") ELSE Ok(PBool(FALSE))
       [] OTHER -> Raise("FunctionNotDefined")

RECURSIVE Eval(_)
RECURSIVE EvalArgs(_, _, _)
RECURSIVE EvalCmp(_, _, _, _)

\* the value of a syntax tree; operands and arguments are evaluated left to
\* right and the first exception ends the evaluation
Eval(a) ==
  CASE a.n = "const" -> Ok(a.v)
    [] a.n = "name" ->
         IF a.s = <<"T", "r", "u", "e">> THEN Ok(PBool(TRUE))
         ELSE IF a.s = <<"F", "a", "l", "s", "e">> THEN Ok(PBool(FALSE))
         ELSE IF a.s = <<"N", "o", "n", "e">> THEN Ok(None)
         ELSE Raise("NameNotDefined")
    [] a.n = "unary" ->
         Let(Eval(a.x), LAMBDA x :
           IF ~x.ok THEN x
           ELSE IF ~IsNumeric(x.v) THEN Raise("TypeError")
           ELSE IF a.o = "-" THEN Ok(NumSub(PInt(0), AsNum(x.v)))
           ELSE Ok(AsNum(x.v)))
    [] a.n = "bin" ->
         Let(Eval(a.x), LAMBDA x :
           IF ~x.ok THEN x
           ELSE Let(Eval(a.y), LAMBDA y :
                  IF ~y.ok THEN y ELSE BinOp(a.o, x.v, y.v)))
    [] a.n = "cmp" ->
         Let(Eval(a.x), LAMBDA x :
           IF ~x.ok THEN x ELSE EvalCmp(x.v, a.os, a.ys, 1))
    [] a.n = "call" ->
         IF FnOf(a.f) \notin FunctionNames THEN Raise("FunctionNotDefined")
         ELSE Let(EvalArgs(a.as, 1, <<>>), LAMBDA args :
                IF ~args.ok THEN args ELSE CallFunction(FnOf(a.f), args.v))
    [] a.n = "list" -> Raise("FeatureNotAvailable")

EvalArgs(as, i, acc) ==
  IF i > Len(as) THEN Ok(acc)
  ELSE Let(Eval(as[i]), LAMBDA x :
         IF ~x.ok THEN x ELSE EvalArgs(as, i + 1, Append(acc, x.v)))

\* left o1 y1 o2 y2 ...: stops at the first false comparison
EvalCmp(left, os, ys, i) ==
  IF i > Len(os) THEN Ok(PBool(TRUE))
  ELSE Let(Eval(ys[i]), LAMBDA y :
       Let(IF y.ok THEN BinOp(os[i], left, y.v) ELSE y, LAMBDA r :
         IF ~r.ok THEN r
         ELSE IF ~r.v.b THEN Ok(PBool(FALSE))
         ELSE EvalCmp(y.v, os, ys, i + 1)))

\* simple_eval(expr, functions=...): the value, or the exception raised
simple_eval(expr) ==
  Let(Tokens(Strip(expr), 1, <<>>), LAMBDA t :
  Let(IF t.ok THEN PExpr(t.toks, 1) ELSE PFail, LAMBDA p :
    IF ~t.ok \/ ~p.ok \/ p.i # Len(t.toks) + 1 THEN Raise("SyntaxError")
    ELSE Eval(p.a)))

(***************************************************************************)
(* datetime.strptime and the "%Y-%m-%d %H:%M:%S %z" rendering.             *)
(***************************************************************************)
IsLeap(y) == (y % 4 = 0 /\ y % 100 # 0) \/ y % 400 = 0
DaysIn(y, m) ==
  IF m = 2 THEN (IF IsLeap(y) THEN 29 ELSE 28)
  ELSE IF m \in {4, 6, 9, 11} THEN 30 ELSE 31

Pad2(n) == IF n < 10 THEN <<"0">> \o NatStr(n) ELSE NatStr(n)

\* one or two digits
Short(s) == Len(s) \in {1, 2} /\ AllDigits(s)

\* datetime.strptime(s, "%Y-%m-%d %H:%M:%S") (with_zone: followed by " %Z"),
\* stamped as UTC and rendered with "%Y-%m-%d %H:%M:%S %z"
utc_render(s, with_zone) ==
  Let(Split(s, <<" ">>), LAMBDA parts :
  Let(Split(parts[1], <<"-">>), LAMBDA d :
  Let(IF Len(parts) >= 2 THEN Split(parts[2], <<":">>) ELSE <<>>, LAMBDA t :
    IF ~ /\ Len(parts) = (IF with_zone THEN 3 ELSE 2)
         /\ Len(d) = 3 /\ Len(t) = 3
         /\ Len(d[1]) = 4 /\ AllDigits(d[1])
         /\ Short(d[2]) /\ Short(d[3])
         /\ Short(t[1]) /\ Short(t[2]) /\ Short(t[3])
         /\ (with_zone =>
               parts[3] \in {<<"U", "T", "C">>, <<"G", "M", "T">>,
                             <<"u", "t", "c">>, <<"g", "m", "t">>})
    THEN Raise("ValueError")
    ELSE Let([y |-> DigitsVal(d[1]), mo |-> DigitsVal(d[2]),
              dd |-> DigitsVal(d[3]), hh |-> DigitsVal(t[1]),
              mi |-> DigitsVal(t[2]), ss |-> DigitsVal(t[3])], LAMBDA f :
           IF f.y < 1 \/ f.mo \notin 1..12 \/ f.dd \notin 1..DaysIn(f.y, f.mo)
              \/ f.hh > 23 \/ f.mi > 59 \/ f.ss > 59
           THEN Raise("ValueError")
           ELSE Ok(PStr(NatStr(f.y) \o <<"-">> \o Pad2(f.mo) \o <<"-">>
                        \o Pad2(f.dd) \o <<" ">> \o Pad2(f.hh) \o <<":">>
                        \o Pad2(f.mi) \o <<":">> \o Pad2(f.ss)
                        \o <<" ", "+", "0", "0", "0", "0">>))))))

(***************************************************************************)
(* Column records. A column is the dict the platform returns for one       *)
(* column of one item: id, type, text, value, column.settings_str and the  *)
(* optional keys display_value, checked and mirrored_items (keys holds     *)
(* the optional keys that are present).                                    *)
(***************************************************************************)
Column(id, type, text, value, settings_str, keys, display_value) ==
  [id |-> id, type |-> type, text |-> text, value |-> value,
   settings_str |-> settings_str, keys |-> keys,
   display_value |-> display_value, checked |-> None,
   mirrored_items |-> None]

\* column.get(key)
ColGet(c, key) ==
  IF key \notin c.keys THEN None
  ELSE CASE key = "display_value" -> c.display_value
         [] key = "checked" -> c.checked
         [] key = "mirrored_items" -> c.mirrored_items

\* services/constants.py
UNSUPPORTED_MONDAY_COLUMN_TYPES ==
  <<"formula", "autonumber", "columns-battery", "button">>

InList(x, l) == \E j \in 1..Len(l) : l[j] = x

\* v[key] for a string key
Subscript(v, key) ==
  IF v.k = "dict"
  THEN (IF DictHas(v, key) THEN Ok(DictGet(v, key)) ELSE Raise("KeyError"))
  ELSE Raise("TypeError")

\* key in v for a string key
PyIn(v, key) ==
  CASE v.k = "dict" -> Ok(PBool(DictHas(v, key)))
    [] v.k = "str" -> Ok(PBool(Contains(v.s, key)))
    [] v.k = "list" -> Ok(PBool(\E j \in 1..Len(v.l) : v.l[j] = PStr(key)))
    [] OTHER -> Raise("TypeError")

\* the elements enumerate(v) yields
Iterate(v) ==
  CASE v.k = "list" -> Ok(v.l)
    [] v.k = "dict" -> Ok([j \in 1..Len(v.kv) |-> PStr(v.kv[j].key)])
    [] v.k = "str" -> Ok([j \in 1..Len(v.s) |-> PStr(<<v.s[j]>>)])
    [] OTHER -> Raise("TypeError")

\* int(v)
int_call(v) ==
  CASE v.k = "str" -> int_of(v.s)
    [] v.k = "int" -> Ok(v)
    [] v.k = "bool" -> Ok(AsNum(v))
    [] v.k = "float" ->
         Ok(PInt(IF v.n >= 0 THEN v.n \div v.d ELSE -((-v.n) \div v.d)))
    [] OTHER -> Raise("TypeError")

\* re.sub(r"\\*\'", "\\'", text): every run of backslashes that ends in a
\* quote becomes one backslash and the quote
RECURSIVE BackslashEnd(_, _)
BackslashEnd(s, i) ==
  IF i <= Len(s) /\ s[i] = "\\" THEN BackslashEnd(s, i + 1) ELSE i

RECURSIVE EscapeQuotes(_)
EscapeQuotes(s) ==
  IF s = <<>> THEN <<>>
  ELSE LET e == BackslashEnd(s, 1)
       IN IF e <= Len(s) /\ s[e] = "'"
          THEN <<"\\", "'">> \o EscapeQuotes(From(s, e + 1))
          ELSE <<Head(s)>> \o EscapeQuotes(Tail(s))

\* add_text(col, text): col["text"] = escaped text; col must be a dict
add_text(col, text) ==
  IF col.k # "dict" THEN Raise("TypeError")
  ELSE Ok(PDict(DictPut(col.kv, <<"t", "e", "x", "t">>, PStr(EscapeQuotes(text)))))

\* [add_text(item, text.split(", ")[index]) if use_text else item
\*  for index, item in enumerate(items)]; the items are dicts changed in
\* place, so on an exception l holds the items as they are left
RECURSIVE ZipText(_, _, _, _, _)
ZipText(items, text, use_text, j, acc) ==
  IF j > Len(items) THEN [ok |-> TRUE, l |-> acc, msg |-> ""]
  ELSE IF ~use_text THEN ZipText(items, text, use_text, j + 1, Append(acc, items[j]))
  ELSE IF text.k # "str"
       THEN [ok |-> FALSE, l |-> acc \o SubSeq(items, j, Len(items)),
             msg |-> "AttributeError"]
  ELSE Let(Split(text.s, <<",", " ">>), LAMBDA segs :
       Let(IF j <= Len(segs) THEN add_text(items[j], segs[j])
           ELSE Raise("IndexError"), LAMBDA r :
         IF ~r.ok
         THEN [ok |-> FALSE, l |-> acc \o SubSeq(items, j, Len(items)),
               msg |-> r.msg]
         ELSE ZipText(items, text, use_text, j + 1, Append(acc, r.v))))

(***************************************************************************)
(* parse_value: the branches that read no other column.                    *)
(* A branch yields [ok, v, msg]: v is the column's value as the branch     *)
(* leaves it (on an exception, the decoded value, changed in place as far  *)
(* as the branch got).                                                     *)
(***************************************************************************)
K_checked == <<"c", "h", "e", "c", "k", "e", "d">>
K_time == <<"t", "i", "m", "e">>
K_date == <<"d", "a", "t", "e">>
K_linkedPulseIds == <<"l", "i", "n", "k", "e", "d", "P", "u", "l", "s", "e", "I", "d", "s">>
K_personsAndTeams ==
  <<"p", "e", "r", "s", "o", "n", "s", "A", "n", "d", "T", "e", "a", "m", "s">>
K_files == <<"f", "i", "l", "e", "s">>
K_url == <<"u", "r", "l">>
K_formula == <<"f", "o", "r", "m", "u", "l", "a">>
K_function == <<"f", "u", "n", "c", "t", "i", "o", "n">>
K_display_value ==
  <<"d", "i", "s", "p", "l", "a", "y", "_", "v", "a", "l", "u", "e">>
K_mirrored_items ==
  <<"m", "i", "r", "r", "o", "r", "e", "d", "_", "i", "t", "e", "m", "s">>
S_null == <<"n", "u", "l", "l">>
S_true == <<"t", "r", "u", "e">>

Done(v) == [ok |-> TRUE, v |-> v, msg |-> ""]
Fail(v, m) == [ok |-> FALSE, v |-> v, msg |-> m]
\* the branch computes r and assigns it; an exception leaves cur
Assign(r, cur) == IF r.ok THEN Done(r.v) ELSE Fail(cur, r.msg)

\* lines 482-483
rating_branch(c) == Assign(int_call(c.text), c.value)

\* lines 484-488
vote_branch(c) ==
  IF c.text.k # "str" THEN Fail(c.value, "TypeError")
  ELSE IF Len(c.text.s) > 0 THEN Assign(int_call(c.text), c.value)
  ELSE Done(PInt(0))

\* lines 489-493
checkbox_branch(c) ==
  IF "checked" \in c.keys THEN Done(c.checked)
  ELSE Let(Subscript(c.value, K_checked), LAMBDA x :
         IF ~x.ok THEN Fail(c.value, x.msg)
         ELSE Done(PBool(PyStr(x.v) = S_true)))

\* lines 494-503
date_branch(c) ==
  Let(PyIn(c.value, K_time), LAMBDA has :
    IF ~has.ok THEN Fail(c.value, has.msg)
    ELSE IF ~has.v.b THEN Done(c.text)
    ELSE Let(Subscript(c.value, K_time), LAMBDA tm :
      IF ~tm.ok THEN Fail(c.value, tm.msg)
      ELSE IF ~Truthy(tm.v) THEN Done(c.text)
      ELSE Let(Subscript(c.value, K_date), LAMBDA dt :
        IF ~dt.ok THEN Fail(c.value, dt.msg)
        ELSE Assign(utc_render(PyStr(dt.v) \o <<" ">> \o PyStr(tm.v), FALSE),
                    c.value))))

\* the list comprehension of lines 507-512 and 523-526 over value[key]
zip_branch(c, key, use_text) ==
  Let(Subscript(c.value, key), LAMBDA src :
    IF ~src.ok THEN Fail(c.value, src.msg)
    ELSE Let(Iterate(src.v), LAMBDA items :
      IF ~items.ok THEN Fail(c.value, items.msg)
      ELSE Let(ZipText(items.v, c.text, use_text, 1, <<>>), LAMBDA z :
        IF z.ok THEN Done(PList(z.l))
        ELSE Fail(IF src.v.k = "list"
                  THEN PDict(DictPut(c.value.kv, key, PList(z.l)))
                  ELSE c.value,
                  z.msg))))

\* lines 504-515
link_list_branch(c) ==
  IF c.value = None THEN Done(c.value)
  ELSE Let(PyIn(c.value, K_linkedPulseIds), LAMBDA has :
         IF ~has.ok THEN Fail(c.value, has.msg)
         ELSE IF ~has.v.b THEN Done(PList(<<>>))
         ELSE zip_branch(c, K_linkedPulseIds, Truthy(c.text)))

\* lines 516-519
dropdown_branch(c) ==
  IF ~Truthy(c.text) THEN Done(c.text)
  ELSE IF c.text.k # "str" THEN Fail(c.value, "AttributeError")
  ELSE Let(Split(c.text.s, <<",", " ">>), LAMBDA parts :
         Done(PList([j \in 1..Len(parts) |-> PStr(parts[j])])))

\* lines 520-526
people_branch(c) ==
  IF c.value = None THEN Done(c.value)
  ELSE zip_branch(c, K_personsAndTeams, TRUE)

\* lines 527-530
subscript_branch(c, key) == Assign(Subscript(c.value, key), c.value)

\* lines 531-539 with the int conversion on both sides of the test
numbers_branch_int_only(c) ==
  IF c.text.k # "str" THEN Fail(c.value, "TypeError")
  ELSE IF Truthy(c.text) THEN Assign(int_of(c.text.s), c.value)
  ELSE Done(PInt(0))

\* lines 531-539
numbers_branch(c) ==
  IF c.text.k # "str" THEN Fail(c.value, "TypeError")
  ELSE IF Contains(c.text.s, <<".">>) THEN Assign(float_of(c.text.s), c.value)
  ELSE IF Truthy(c.text) /\ c.text.s # <<>> THEN Assign(int_of(c.text.s), c.value)
  ELSE Done(PInt(0))

\* lines 540-543
timestamp_branch(c) ==
  IF c.text.k # "str" THEN Fail(c.value, "TypeError")
  ELSE Assign(utc_render(c.text.s, TRUE), c.value)

\* float(v.strip()) for v in values if v.strip()
RECURSIVE Floats(_, _, _)
Floats(values, j, acc) ==
  IF j > Len(values) THEN Ok(acc)
  ELSE IF Strip(values[j]) = <<>> THEN Floats(values, j + 1, acc)
  ELSE Let(float_of(Strip(values[j])), LAMBDA f :
         IF ~f.ok THEN f ELSE Floats(values, j + 1, Append(acc, f.v)))

\* sorted(xs) by insertion
RECURSIVE Insert(_, _)
Insert(x, xs) ==
  IF xs = <<>> THEN <<x>>
  ELSE IF NumLess(x, Head(xs)) THEN <<x>> \o xs
  ELSE <<Head(xs)>> \o Insert(x, Tail(xs))

RECURSIVE Sorted(_)
Sorted(xs) == IF xs = <<>> THEN <<>> ELSE Insert(Head(xs), Sorted(Tail(xs)))

\* statistics.median_low(xs) in the place of statistics.median(xs)
median_lower(xs) ==
  IF xs = <<>> THEN Raise("StatisticsError")
  ELSE Ok(Sorted(xs)[(Len(xs) + 1) \div 2])

\* statistics.median(xs)
median(xs) ==
  IF xs = <<>> THEN Raise("StatisticsError")
  ELSE Let(Sorted(xs), LAMBDA srt :
         IF Len(xs) % 2 = 1 THEN Ok(srt[(Len(xs) + 1) \div 2])
         ELSE BinOp("/", NumAdd(srt[Len(xs) \div 2], srt[Len(xs) \div 2 + 1]),
                    PInt(2)))

\* lines 830-851: the aggregate of display_value under a settings function
aggregate(function, c) ==
  IF "display_value" \notin c.keys THEN Raise("KeyError")
  ELSE IF c.display_value.k # "str" THEN Raise("AttributeError")
  ELSE Let(Split(c.display_value.s, <<",", " ">>), LAMBDA values :
    IF function.s = <<"c", "o", "u", "n", "t">> THEN Ok(PInt(Len(values)))
    ELSE Let(Floats(values, 1, <<>>), LAMBDA fl :
      IF ~fl.ok THEN fl
      ELSE CASE function.s = <<"s", "u", "m">> -> py_sum(fl.v)
             [] function.s = <<"a", "v", "e", "r", "a", "g", "e">> ->
                  BinOp("/", py_sum(fl.v).v, PInt(Len(values)))
             [] function.s \in {<<"m", "i", "n">>, <<"m", "a", "x">>} ->
                  py_min_max(fl.v, function.s = <<"m", "i", "n">>)
             [] function.s = <<"m", "e", "d", "i", "a", "n">> -> median(fl.v)))

AggregateFunctions ==
  {<<"s", "u", "m">>, <<"a", "v", "e", "r", "a", "g", "e">>, <<"m", "i", "n">>,
   <<"m", "a", "x">>, <<"c", "o", "u", "n", "t">>, <<"m", "e", "d", "i", "a", "n">>}

\* lines 823-855 without the object built at lines 852-855
mirror_branch_bare(c) == Done(ColGet(c, "display_value"))

\* lines 823-855
mirror_branch(c) ==
  Let(IF Truthy(c.settings_str) THEN c.settings_str ELSE PStr(<<"{", "}">>),
      LAMBDA settings_str :
  Let(IF settings_str.k = "str" THEN json_loads(settings_str.s)
      ELSE Raise("TypeError"), LAMBDA settings :
    IF ~settings.ok THEN Fail(c.value, settings.msg)
    ELSE IF settings.v.k # "dict" THEN Fail(c.value, "AttributeError")
    ELSE Let(DictGet(settings.v, K_function), LAMBDA function :
         Let(IF function.k = "str" /\ function.s \in AggregateFunctions
             THEN aggregate(function, c)
             ELSE Ok(ColGet(c, "display_value")), LAMBDA evaluated_value :
           IF ~evaluated_value.ok THEN Fail(c.value, evaluated_value.msg)
           ELSE Done(PDict(<<[key |-> K_display_value, val |-> evaluated_value.v],
                             [key |-> K_mirrored_items,
                              val |-> IF "mirrored_items" \in c.keys
                                      THEN c.mirrored_items
                                      ELSE PList(<<>>)]>>))))))

(***************************************************************************)
(* The formula evaluator (lines 547-821) and parse_value itself.           *)
(* The columns of an item are objects shared by item["column_values"] and  *)
(* by the column map: cols is that list, a column is named by its          *)
(* position, and parse_value changes it in place. The outcome of a call is *)
(* [ok, cols, msg]: cols after the call, and the exception if one was      *)
(* raised.                                                                 *)
(***************************************************************************)
Returned(cols) == [ok |-> TRUE, cols |-> cols, msg |-> ""]
Raised(cols, m) == [ok |-> FALSE, cols |-> cols, msg |-> m]

\* a column map built from the columns of supported type only
MapGet_supported_only(cols, name) ==
  LET hits == {j \in 1..Len(cols) :
                 /\ cols[j].id = name
                 /\ ~InList(cols[j].type, UNSUPPORTED_MONDAY_COLUMN_TYPES)}
  IN IF hits = {} THEN 0 ELSE CHOOSE j \in hits : \A h \in hits : h <= j

\* column_values_by_column_id.get(name) (lines 861-863: a later column with
\* the same id replaces an earlier one); 0 when the id is absent
MapGet(cols, name) ==
  LET hits == {j \in 1..Len(cols) : cols[j].id = name}
  IN IF hits = {} THEN 0 ELSE CHOOSE j \in hits : \A h \in hits : h <= j

\* re.findall(r"\{(\w+)\}", formula)
RECURSIVE findall_names(_, _)
findall_names(s, i) ==
  IF i > Len(s) THEN <<>>
  ELSE IF s[i] = "{"
       THEN Let(WordEnd(s, i + 1), LAMBDA e :
              IF e > i + 1 /\ e <= Len(s) /\ s[e] = "}"
              THEN <<SubSeq(s, i + 1, e - 1)>> \o findall_names(s, e + 1)
              ELSE findall_names(s, i + 1))
  ELSE findall_names(s, i + 1)

\* lines 578-585: the text substituted for a referenced column
replacement_of(fc) ==
  Let(IF fc.type = "mirror" THEN Subscript(fc.value, K_display_value)
      ELSE IF fc.type = "text"
           THEN Ok(PStr(<<"\\", "\"">> \o PyStr(fc.value) \o <<"\\", "\"">>))
      ELSE Ok(fc.value), LAMBDA v :
    IF ~v.ok THEN v
    ELSE IF v.v = None \/ v.v = PStr(<<>>) \/ v.v = PStr(S_null) THEN Ok(PInt(0))
    ELSE v)

\* lines 586-588 without the second replace
substitute_labels_only(formula, column_name, replacement_value) ==
  Replace(formula,
          <<"{">> \o column_name \o <<"}", "#", "L", "a", "b", "e", "l", "s">>,
          PyStr(replacement_value))

\* lines 586-588
substitute(formula, column_name, replacement_value) ==
  Let(PyStr(replacement_value), LAMBDA txt :
    Replace(Replace(formula,
                    <<"{">> \o column_name
                      \o <<"}", "#", "L", "a", "b", "e", "l", "s">>, txt),
            <<"{">> \o column_name \o <<"}">>, txt))

\* line 592 alone
normalize_operators_equals_only(formula) ==
  Replace(formula, <<"=">>, <<"=", "=">>)

\* lines 591-596
normalize_operators(formula) ==
  Replace(Replace(Replace(Replace(formula, <<"=">>, <<"=", "=">>),
                          <<"<", "=", "=">>, <<"<", "=">>),
                  <<">", "=", "=">>, <<">", "=">>),
          <<"!", "=", "=">>, <<"!", "=">>)

\* end of the first match of (['"])([^,\]]*?)\1\] after an opening "[" quote
\* at positions i, i+1: the position of the closing "]", 0 when none
RECURSIVE BracketClose(_, _, _)
BracketClose(s, q, j) ==
  IF j + 1 > Len(s) THEN 0
  ELSE IF s[j] = q /\ s[j + 1] = "]" THEN j + 1
  ELSE IF s[j] \in {",", "]"} THEN 0
  ELSE BracketClose(s, q, j + 1)

\* lines 599-612
RECURSIVE remove_single_element_brackets(_)
remove_single_element_brackets(s) ==
  IF s = <<>> THEN <<>>
  ELSE Let(IF Len(s) >= 2 /\ s[1] = "[" /\ s[2] \in {"'", "\""}
           THEN BracketClose(s, s[2], 3) ELSE 0, LAMBDA e :
         IF e # 0
         THEN SubSeq(s, 2, e - 1) \o remove_single_element_brackets(From(s, e + 1))
         ELSE <<Head(s)>> \o remove_single_element_brackets(Tail(s)))

\* line 809
is_float_division_by_zero(msg) == msg = "float division by zero"

RECURSIVE parse_value(_, _, _)
RECURSIVE substitute_columns(_, _, _, _, _)
RECURSIVE formula_branch(_, _, _)

\* lines 569-588: the loop over column_names from position k on;
\* st is "done" (loop finished), "return" (line 573) or "raise"
substitute_columns(cols, column_names, k, formula, depth) ==
  IF k > Len(column_names)
  THEN [st |-> "done", cols |-> cols, formula |-> formula, msg |-> ""]
  ELSE Let(MapGet(cols, column_names[k]), LAMBDA j :
    IF j = 0
    THEN [st |-> "return", cols |-> cols, formula |-> formula, msg |-> ""]
    ELSE Let(parse_value(cols, j, depth + 1), LAMBDA formula_column_value :
      IF ~formula_column_value.ok
      THEN [st |-> "raise", cols |-> formula_column_value.cols,
            formula |-> formula, msg |-> formula_column_value.msg]
      ELSE Let(replacement_of(formula_column_value.cols[j]),
               LAMBDA replacement_value :
        IF ~replacement_value.ok
        THEN [st |-> "raise", cols |-> formula_column_value.cols,
              formula |-> formula, msg |-> replacement_value.msg]
        ELSE substitute_columns(
               formula_column_value.cols, column_names, k + 1,
               substitute(formula, column_names[k], replacement_value.v),
               depth))))

\* line 548: the value a formula column takes before anything else is looked at
formula_entry_value_kept(c) == c.value
formula_entry_value(c) == c.display_value

\* lines 549-550 without the early return
cheap_path_never(c) == FALSE

\* lines 549-550: a display_value other than "null" is returned as it is
cheap_path(c) == c.display_value # PStr(S_null)

\* lines 709-821: the evaluation of the substituted expression and the
\* handler of its exceptions, for column i of cols
evaluate_formula(cols, i, expr) ==
  Let(simple_eval(expr), LAMBDA e :
    IF e.ok THEN Returned([cols EXCEPT ![i].value = e.v])
    ELSE IF is_float_division_by_zero(e.msg)
         THEN Returned([cols EXCEPT ![i].value = PInt(0)])
    ELSE Returned(cols))

\* lines 547-821, for column i holding the key display_value
formula_branch(cols0, i, depth) ==
  Let([cols0 EXCEPT ![i].value = formula_entry_value(cols0[i])], LAMBDA cols :
    IF cheap_path(cols[i]) THEN Returned(cols)
    ELSE IF ~Truthy(cols[i].settings_str) THEN Returned(cols)
    ELSE IF cols[i].settings_str.k # "str" THEN Raised(cols, "TypeError")
    ELSE Let(json_loads(cols[i].settings_str.s), LAMBDA settings :
      IF ~settings.ok THEN Raised(cols, settings.msg)
      ELSE IF settings.v.k # "dict" THEN Raised(cols, "AttributeError")
      ELSE Let(DictGet(settings.v, K_formula), LAMBDA formula :
        IF ~Truthy(formula) THEN Returned(cols)
        ELSE IF formula.k # "str" THEN Raised(cols, "TypeError")
        ELSE Let(findall_names(formula.s, 1), LAMBDA column_names :
          IF column_names = <<>> THEN Returned(cols)
          ELSE Let(substitute_columns(cols, column_names, 1, formula.s, depth),
                   LAMBDA loop :
            IF loop.st = "return" THEN Returned(loop.cols)
            ELSE IF loop.st = "raise" THEN Raised(loop.cols, loop.msg)
            ELSE evaluate_formula(
                   loop.cols, i,
                   remove_single_element_brackets(
                     normalize_operators(loop.formula))))))))

\* lines 474-479 without the early return
passthrough_never(c) == FALSE

\* lines 474-479
passthrough(c) ==
  /\ ~Truthy(c.value)
  /\ (c.text = PStr(<<>>) \/ c.text = None)
  /\ ~InList(c.type, <<"votes", "formula", "mirror">>)

\* lines 480-481
json_predecode(c) ==
  IF is_json(c.value) THEN [c EXCEPT !.value = json_loads(c.value.s).v] ELSE c

\* lines 482-546 and 823-857: the branch of a column that reads no other column
dispatch(c) ==
  CASE c.type \in {"rating", "auto_number"} -> rating_branch(c)
    [] c.type = "vote" -> vote_branch(c)
    [] c.type = "checkbox" -> checkbox_branch(c)
    [] c.type = "date" -> date_branch(c)
    [] c.type \in {"dependency", "board_relation", "subtasks"} -> link_list_branch(c)
    [] c.type \in {"dropdown", "tags"} -> dropdown_branch(c)
    [] c.type = "people" -> people_branch(c)
    [] c.type = "file" -> subscript_branch(c, K_files)
    [] c.type = "link" -> subscript_branch(c, K_url)
    [] c.type = "numbers" -> numbers_branch(c)
    [] c.type \in {"creation_log", "last_updated"} -> timestamp_branch(c)
    [] c.type \in {"duration", "integration"} -> Done(c.value)
    [] c.type = "mirror" -> mirror_branch(c)
    [] OTHER -> Done(c.text)

\* MondayService.parse_value(cols[i], column map of cols), entered as the
\* depth-th nested frame
parse_value(cols0, i, depth) ==
  IF depth > MaxDepth THEN Raised(cols0, "RecursionError")
  ELSE IF passthrough(cols0[i]) THEN Returned(cols0)
  ELSE Let([cols0 EXCEPT ![i] = json_predecode(cols0[i])], LAMBDA cols :
         IF cols[i].type = "formula" /\ "display_value" \in cols[i].keys
         THEN formula_branch(cols, i, depth)
         ELSE Let(dispatch(cols[i]), LAMBDA r :
                IF r.ok THEN Returned([cols EXCEPT ![i].value = r.v])
                ELSE Raised([cols EXCEPT ![i].value = r.v], r.msg)))

(***************************************************************************)
(* parse_item_column_values (lines 860-890).                               *)
(***************************************************************************)
\* ColumnValue.model_validate (models/monday/api/items.py): the fields keep
\* their values; a field of another type than declared is refused
model_validate(c) ==
  IF /\ c.text.k \in {"str", "none"}
     /\ c.settings_str.k \in {"str", "none"}
     /\ ColGet(c, "display_value").k \in {"str", "none"}
     /\ ColGet(c, "checked").k \in {"bool", "none"}
     /\ ColGet(c, "mirrored_items").k \in {"list", "none"}
  THEN Ok(c) ELSE Raise("ValidationError")

\* line 867
supported_no_filter(c) == TRUE
supported(c) == ~InList(c.type, UNSUPPORTED_MONDAY_COLUMN_TYPES)

\* lines 864-868: the list comprehension from position j on; out holds the
\* ColumnValue objects built so far, calls the positions of the columns
\* parse_value was invoked on so far
RECURSIVE parse_columns(_, _, _, _)
parse_columns(cols, j, out, calls) ==
  IF j > Len(cols)
  THEN [ok |-> TRUE, cols |-> cols, out |-> out, msg |-> "", calls |-> calls]
  ELSE IF ~supported(cols[j]) THEN parse_columns(cols, j + 1, out, calls)
  ELSE Let(parse_value(cols, j, 1), LAMBDA r :
    IF ~r.ok THEN [ok |-> FALSE, cols |-> r.cols, out |-> out, msg |-> r.msg,
                   calls |-> Append(calls, j)]
    ELSE Let(model_validate(r.cols[j]), LAMBDA m :
      IF ~m.ok THEN [ok |-> FALSE, cols |-> r.cols, out |-> out, msg |-> m.msg,
                     calls |-> Append(calls, j)]
      ELSE parse_columns(r.cols, j + 1, Append(out, m.v), Append(calls, j))))

\* lines 872-878 and 882-888
name_column(it) ==
  Column(<<"n", "a", "m", "e">>, "name", PStr(it.name), PStr(it.name), None, {}, None)
id_column(it, id_value) ==
  Column(<<"i", "d">>, "item_id", PStr(it.id), id_value, None, {}, None)

\* lines 870-889: the two insert(0, ...) calls
insert_synthetic_swapped(column_values, it, id_value) ==
  <<name_column(it), id_column(it, id_value)>> \o column_values
insert_synthetic_appended(column_values, it, id_value) ==
  column_values \o <<id_column(it, id_value), name_column(it)>>
insert_synthetic(column_values, it, id_value) ==
  <<id_column(it, id_value)>> \o (<<name_column(it)>> \o column_values)

\* the outcome [ok, cols, out, msg, calls] of parse_item_column_values(it)
parse_item_column_values(it) ==
  Let(parse_columns(it.column_values, 1, <<>>, <<>>), LAMBDA r :
    IF ~r.ok THEN r
    ELSE Let(int_of(it.id), LAMBDA id_value :
      IF ~id_value.ok THEN [r EXCEPT !.ok = FALSE, !.msg = id_value.msg]
      ELSE [r EXCEPT !.out = insert_synthetic(r.out, it, id_value.v)]))

(***************************************************************************)
(* The state machine: an item as fetched, then one call of                 *)
(* parse_item_column_values(item) or of parse_value(column, column map)    *)
(* on one of its columns.                                                  *)
(*   item  the item; its columns are changed in place by the calls         *)
(*   pc    "start" before the call, "done" after it                        *)
(*   call  the call made: op, arg (the column's position), entry (the item *)
(*         on entry), raised/msg (the exception), ret (what was returned:  *)
(*         the ColumnValue list, or the one column parse_value returns),   *)
(*         parsed (the positions of the columns the comprehension of       *)
(*         parse_item_column_values handed to parse_value, in order)       *)
(***************************************************************************)
\* the lock service and the HTTP session executor before any call to them
NoFirestore == [doc |-> None, now |-> 0, calls |-> <<>>]
NoSession ==
  [pc |-> "idle", max_retries |-> 0, attempt |-> 0, opened |-> 0,
   closed |-> 0, outcomes |-> <<>>, delays |-> <<>>, last_exception |-> "",
   raised |-> ""]

NoCall(it) ==
  [op |-> "none", arg |-> 0, entry |-> it, raised |-> FALSE, msg |-> "",
   ret |-> <<>>, parsed |-> <<>>]

ParseItemColumnValues ==
  /\ pc = "start"
  /\ Let(parse_item_column_values(item), LAMBDA r :
       /\ item' = [item EXCEPT !.column_values = r.cols]
       /\ call' = [op |-> "parse_item_column_values", arg |-> 0, entry |-> item,
                   raised |-> ~r.ok, msg |-> r.msg,
                   ret |-> IF r.ok THEN r.out ELSE <<>>,
                   parsed |-> r.calls])
  /\ pc' = "done"
  /\ UNCHANGED <<firestore, session>>

ParseValue(i) ==
  /\ pc = "start"
  /\ Let(parse_value(item.column_values, i, 1), LAMBDA r :
       /\ item' = [item EXCEPT !.column_values = r.cols]
       /\ call' = [op |-> "parse_value", arg |-> i, entry |-> item,
                   raised |-> ~r.ok, msg |-> r.msg,
                   ret |-> IF r.ok THEN <<r.cols[i]>> ELSE <<>>,
                   parsed |-> <<>>])
  /\ pc' = "done"
  /\ UNCHANGED <<firestore, session>>

\* lines 553-559 and 590-596 on their own: the formula text of the settings
\* of column 1 goes through the operator normalization
NormalizeOperators ==
  /\ pc = "start"
  /\ Let(DictGet(json_loads(item.column_values[1].settings_str.s).v, K_formula),
         LAMBDA formula :
       call' = [op |-> "normalize_operators", arg |-> 1, entry |-> item,
                raised |-> FALSE, msg |-> "",
                ret |-> <<formula.s, normalize_operators(formula.s)>>,
                parsed |-> <<>>])
  /\ pc' = "done"
  /\ UNCHANGED <<item, firestore, session>>

NextOperators == NormalizeOperators

\* lines 553-588 on their own, for the formula column i: the formula text of
\* its settings after the loop that substitutes the referenced columns
SubstituteColumns(i) ==
  /\ pc = "start"
  /\ item.column_values[i].type = "formula"
  /\ Truthy(item.column_values[i].settings_str)
  /\ Let(DictGet(json_loads(item.column_values[i].settings_str.s).v, K_formula),
         LAMBDA formula :
       Let(substitute_columns(item.column_values, findall_names(formula.s, 1),
                              1, formula.s, 1), LAMBDA loop :
         /\ item' = [item EXCEPT !.column_values = loop.cols]
         /\ call' = [op |-> "substitute_columns", arg |-> i, entry |-> item,
                     raised |-> loop.st = "raise", msg |-> loop.msg,
                     ret |-> <<formula.s, loop.formula>>,
                     parsed |-> <<>>]))
  /\ pc' = "done"
  /\ UNCHANGED <<firestore, session>>

NextSubstitute == \E i \in 1..Len(item.column_values) : SubstituteColumns(i)

\* parse_value applied a second time to the record a first application
\* returned (lines 469-858 again, on the column as the first call left it)
ParseValueAgain(i) ==
  /\ pc = "done"
  /\ call.op = "parse_value" /\ call.arg = i /\ ~call.raised
  /\ Let(parse_value(item.column_values, i, 1), LAMBDA r :
       /\ item' = [item EXCEPT !.column_values = r.cols]
       /\ call' = [call EXCEPT !.op = "parse_value_again",
                               !.raised = ~r.ok, !.msg = r.msg,
                               !.ret = IF r.ok THEN Append(call.ret, r.cols[i])
                                       ELSE call.ret])
  /\ pc' = "twice"
  /\ UNCHANGED <<firestore, session>>

NextAgain ==
  \/ \E i \in 1..Len(item.column_values) : ParseValue(i)
  \/ \E i \in 1..Len(item.column_values) : ParseValueAgain(i)

Next ==
  \/ ParseItemColumnValues
  \/ \E i \in 1..Len(item.column_values) : ParseValue(i)

(***************************************************************************)
(* Inputs. The platform sends value as a JSON-encoded string or null, text *)
(* as a string or null, and ids that are unique within an item.            *)
(***************************************************************************)
\* the JSON encoding of the string s, as the platform sends a text value
Q(x) == <<"\"">> \o x \o <<"\"">>
\* settings_str of a formula column: {"formula":"<f>"}
FormulaSettings(f) ==
  PStr(<<"{">> \o Q(K_formula) \o <<":">> \o Q(f) \o <<"}">>)

Plain(id, type, text, value) == Column(id, type, text, value, None, {}, None)
FormulaColumn(id, f) ==
  Column(id, "formula", PStr(<<>>), None, FormulaSettings(f), {"display_value"},
         PStr(S_null))

\* sequences of at most n columns of P with pairwise distinct ids
RECURSIVE ColSeqs(_, _)
ColSeqs(P, n) ==
  IF n = 0 THEN {<<>>}
  ELSE LET S == ColSeqs(P, n - 1)
       IN S \cup {Append(sc[1], sc[2]) :
                    sc \in {x \in S \X P :
                              /\ Len(x[1]) = n - 1
                              /\ \A j \in 1..Len(x[1]) : x[1][j].id # x[2].id}}

ItemIds == {<<"4", "2">>, <<"7">>}
ItemName == <<"T", "a", "s", "k">>

ItemsOver(colseqs) ==
  {[id |-> iid, name |-> ItemName, column_values |-> cv] :
     iid \in ItemIds, cv \in colseqs}

InitWith(items) ==
  /\ item \in items
  /\ pc = "start"
  /\ call = NoCall(item)
  /\ firestore = NoFirestore
  /\ session = NoSession

\* columns of every kind the normalizer meets: supported and unsupported
\* types, empty and filled cells, cells whose parsing raises
TypeColumns ==
  {Plain(<<"a">>, "numbers", PStr(<<"1", "0">>), PStr(Q(<<"1", "0">>))),
   Plain(<<"a">>, "numbers", PStr(<<"3", ".", "5">>), PStr(Q(<<"3", ".", "5">>))),
   Plain(<<"a">>, "numbers", PStr(<<>>), None),
   Plain(<<"b">>, "rating", PStr(<<"4">>), PStr(<<"4">>)),
   Plain(<<"b">>, "rating", PStr(<<"a", "b", "c">>), PStr(Q(<<"a", "b", "c">>))),
   Plain(<<"b">>, "numbers", None, PStr(Q(<<"x">>))),
   Plain(<<"v">>, "vote", PStr(<<>>), None),
   Plain(<<"v">>, "vote", PStr(<<"7">>), PStr(Q(<<"7">>))),
   Plain(<<"u">>, "button", PStr(<<>>), None),
   Plain(<<"u">>, "autonumber", PStr(<<"1", "2">>), PStr(Q(<<"1", "2">>))),
   Plain(<<"u">>, "columns-battery", None, None),
   Column(<<"f">>, "formula", PStr(<<>>), None, None, {"display_value"},
          PStr(<<"1", "2">>)),
   FormulaColumn(<<"f">>, <<"{", "a", "}", "-", "{", "v", "}">>),
   Column(<<"m">>, "mirror", None, None, None, {"display_value"},
          PStr(<<"3", ",", " ", "4">>)),
   Plain(<<"t">>, "text", PStr(<<"h", "i">>), PStr(Q(<<"h", "i">>))),
   Plain(<<"t">>, "text", None, None)}

Init == InitWith(ItemsOver(ColSeqs(TypeColumns, MaxCols)))
Spec == Init /\ [][Next]_vars

\* one column of every type the dispatcher names (and two it does not), with
\* every combination of the texts and raw values below
ValueTypes ==
  {"rating", "auto_number", "vote", "votes", "checkbox", "date", "dependency",
   "board_relation", "subtasks", "dropdown", "tags", "people", "file", "link",
   "numbers", "creation_log", "last_updated", "duration", "integration",
   "formula", "mirror", "text", "status"}
ValueTexts ==
  {None, PStr(<<>>), PStr(<<"7">>), PStr(<<"3", ".", "5">>), PStr(<<"-", "4">>),
   PStr(<<"a", "b", "c">>)}
\* null, "", the JSON texts "", "7", 0 and {"checked":"true"}, and the falsy
\* objects 0 and [] of a value that was decoded before
ValueValues ==
  {None, PStr(<<>>), PStr(Q(<<>>)), PStr(Q(<<"7">>)), PStr(<<"0">>),
   PStr(<<"{">> \o Q(K_checked) \o <<":">> \o Q(S_true) \o <<"}">>),
   PInt(0), PList(<<>>)}
\* display_value: absent, a rendered result, or "null"
ValueDisplays ==
  {[keys |-> {}, dv |-> None],
   [keys |-> {"display_value"}, dv |-> PStr(<<"1", "2">>)],
   [keys |-> {"display_value"}, dv |-> PStr(S_null)]}

ValueColumns ==
  {Column(<<"c">>, ty, tx, v, None, d.keys, d.dv) :
     ty \in ValueTypes, tx \in ValueTexts, v \in ValueValues,
     d \in ValueDisplays}

InitValue ==
  InitWith(ItemsOver({<<c>> : c \in {x \in ValueColumns :
                                        \/ x.type \in {"formula", "mirror"}
                                        \/ x.keys = {}}}))
SpecValue == InitValue /\ [][Next]_vars

\* numeric columns a and b, a column whose parsing raises, and formula
\* columns f over them (display_value "null": the platform gave no result)
NumberColumn(id, text) ==
  Plain(id, "numbers", PStr(text), IF text = <<>> THEN None ELSE PStr(Q(text)))

FormulaTexts ==
  {<<"{", "a", "}", "-", "{", "b", "}">>,
   <<"{", "a", "}", "+", "{", "b", "}">>,
   <<"{", "a", "}", "*", "{", "b", "}">>,
   <<"{", "a", "}", "/", "{", "b", "}">>,
   <<"{", "a", "}", "-", "{", "b", "}", "*", "{", "a", "}">>,
   <<"D", "I", "V", "I", "D", "E", "(", "{", "a", "}", ",", "{", "b", "}", ")">>,
   <<"M", "O", "D", "(", "{", "a", "}", ",", "{", "b", "}", ")">>,
   <<"{", "a", "}", "-", "{", "z", "z", "}">>,
   <<"{", "z", "z", "}", "+", "{", "a", "}">>,
   <<"{", "b", "}", "/", "{", "z", "z", "}">>,
   <<"{", "f", "}", "+", "1">>}

FormulaColumns ==
  {NumberColumn(<<"a">>, t) :
     t \in {<<"1", "0">>, <<"3", ".", "5">>, <<"-", "5">>, <<>>}}
  \cup {NumberColumn(<<"b">>, t) :
          t \in {<<"3">>, <<"0">>, <<"-", "2">>, <<"0", ".", "0">>}}
  \cup {Plain(<<"b">>, "rating", PStr(<<"a", "b", "c">>), PStr(Q(<<"a", "b", "c">>)))}
  \cup {FormulaColumn(<<"f">>, f) : f \in FormulaTexts}
  \cup {Column(<<"f">>, "formula", PStr(<<>>), None,
               FormulaSettings(<<"{", "a", "}", "-", "{", "b", "}">>),
               {"display_value"}, PStr(<<"7">>))}

InitFormula == InitWith(ItemsOver(ColSeqs(FormulaColumns, MaxCols)))
SpecFormula == InitFormula /\ [][Next]_vars

\* settings_str of a mirror column: {"function":"<fn>"}
MirrorSettings(fn) ==
  PStr(<<"{">> \o Q(K_function) \o <<":">> \o Q(fn) \o <<"}">>)

\* no settings, settings without a function, an unknown function, and the
\* six aggregation functions
MirrorSettingsPool ==
  {None, PStr(<<"{", "}">>), MirrorSettings(<<"n", "o", "n", "e">>)}
  \cup {MirrorSettings(fn) : fn \in AggregateFunctions}

\* display_value: absent, null, numbers joined by ", " ("3, 4, 5",
\* "1, 2, 3, 100", "7"), a blank token ("3, , 5"), only blank tokens ("",
\* ", ") and a token that is no number
MirrorDisplays ==
  {[keys |-> {}, dv |-> None],
   [keys |-> {"display_value"}, dv |-> None],
   [keys |-> {"display_value"}, dv |-> PStr(<<"3", ",", " ", "4", ",", " ", "5">>)],
   [keys |-> {"display_value"},
    dv |-> PStr(<<"1", ",", " ", "2", ",", " ", "3", ",", " ", "1", "0", "0">>)],
   [keys |-> {"display_value"}, dv |-> PStr(<<"3", ",", " ", ",", " ", "5">>)],
   [keys |-> {"display_value"}, dv |-> PStr(<<"7">>)],
   [keys |-> {"display_value"}, dv |-> PStr(<<>>)],
   [keys |-> {"display_value"}, dv |-> PStr(<<",", " ">>)],
   [keys |-> {"display_value"}, dv |-> PStr(<<"a", "b", "c">>)]}

\* {"linked_item": {"id": "1"}}
LinkedItem ==
  PDict(<<[key |-> <<"l", "i", "n", "k", "e", "d", "_", "i", "t", "e", "m">>,
           val |-> PDict(<<[key |-> <<"i", "d">>, val |-> PStr(<<"1">>)]>>)]>>)

\* mirrored_items: absent, empty, one linked item
MirroredItems ==
  {[keys |-> {}, mi |-> None],
   [keys |-> {"mirrored_items"}, mi |-> PList(<<>>)],
   [keys |-> {"mirrored_items"}, mi |-> PList(<<LinkedItem>>)]}

MirrorColumns ==
  {[Column(<<"m">>, "mirror", None, None, st, d.keys \cup m.keys, d.dv)
      EXCEPT !.mirrored_items = m.mi] :
     st \in MirrorSettingsPool, d \in MirrorDisplays, m \in MirroredItems}

InitMirror == InitWith(ItemsOver({<<c>> : c \in MirrorColumns}))
SpecMirror == InitMirror /\ [][Next]_vars

\* a numeric column a and a formula column f that applies SWITCH to it
SwitchTexts ==
  {<<"S", "W", "I", "T", "C", "H", "(", "{", "a", "}", ",", "1", ",", "'", "a", "'",
     ",", "2", ",", "'", "b", "'", ",", "'", "d", "'", ")">>,
   <<"S", "W", "I", "T", "C", "H", "(", "{", "a", "}", ",", "1", ",", "'", "a", "'",
     ",", "2", ",", "'", "b", "'", ")">>,
   <<"S", "W", "I", "T", "C", "H", "(", "{", "a", "}", ",", "2", ",", "'", "x", "'",
     ",", "2", ",", "'", "y", "'", ",", "'", "d", "'", ")">>,
   <<"S", "W", "I", "T", "C", "H", "(", "{", "a", "}", ",", "'", "d", "'", ")">>,
   <<"S", "W", "I", "T", "C", "H", "(", "{", "a", "}", ")">>}

SwitchColumns ==
  {NumberColumn(<<"a">>, t) :
     t \in {<<"1">>, <<"2">>, <<"9">>, <<"2", ".", "0">>}}
  \cup {FormulaColumn(<<"f">>, f) : f \in SwitchTexts}

InitSwitch == InitWith(ItemsOver(ColSeqs(SwitchColumns, 2)))
SpecSwitch == InitSwitch /\ [][Next]_vars

\* a numeric column a, a formula column g over a (or over a column the item
\* lacks), and a formula column f over g
InnerTexts ==
  {<<"{", "a", "}", "+", "1">>, <<"{", "z", "z", "}", "+", "1">>,
   <<"{", "a", "}", "/", "0">>}
OuterTexts ==
  {<<"{", "g", "}", "*", "2">>, <<"{", "g", "}", "+", "{", "a", "}">>}

NestedColumns ==
  {NumberColumn(<<"a">>, t) : t \in {<<"1", "0">>, <<"3", ".", "5">>}}
  \cup {FormulaColumn(<<"g">>, f) : f \in InnerTexts}
  \cup {FormulaColumn(<<"f">>, f) : f \in OuterTexts}

InitNested == InitWith(ItemsOver(ColSeqs(NestedColumns, 3)))
SpecNested == InitNested /\ [][Next]_vars

\* formula texts of at most MaxOperatorText characters over a name and the
\* characters operators are written with
MaxOperatorText == 4
OperatorChars == {"a", "=", "<", ">", "!"}
RECURSIVE OperatorTexts(_)
OperatorTexts(n) ==
  IF n = 0 THEN {<<>>}
  ELSE LET S == OperatorTexts(n - 1)
       IN S \cup {Append(t, c) : t \in {x \in S : Len(x) = n - 1},
                                 c \in OperatorChars}

InitOperators ==
  InitWith({[id |-> <<"7">>, name |-> ItemName,
             column_values |-> <<FormulaColumn(<<"f">>, t)>>] :
              t \in OperatorTexts(MaxOperatorText) \ {<<>>}})
SpecOperators == InitOperators /\ [][NextOperators]_vars

\* a formula column f naming x, with and without "#Labels", and a column x
\* of each kind the substitution tells apart: empty and filled numbers, a
\* status cell resolving to "", a formula left at "null", mirrors with and
\* without an aggregate, empty and filled text
SubstituteTexts ==
  {<<"{", "x", "}", "+", "1">>,
   <<"{", "x", "}", "#", "L", "a", "b", "e", "l", "s", "+", "{", "x", "}">>,
   <<"{", "x", "}", "*", "{", "x", "}", "#", "L", "a", "b", "e", "l", "s">>}

ReferencedColumns ==
  {NumberColumn(<<"x">>, <<>>),
   NumberColumn(<<"x">>, <<"1", "0">>),
   Plain(<<"x">>, "status", PStr(<<>>), PStr(Q(<<"x">>))),
   Column(<<"x">>, "formula", PStr(<<>>), None, None, {"display_value"},
          PStr(S_null)),
   Column(<<"x">>, "mirror", None, None, MirrorSettings(<<"s", "u", "m">>),
          {"display_value"}, PStr(<<"3", ",", " ", "4">>)),
   Column(<<"x">>, "mirror", None, None, None, {"display_value"}, PStr(<<"5">>)),
   Column(<<"x">>, "mirror", None, None, None, {"display_value"}, None),
   Plain(<<"x">>, "text", None, None),
   Plain(<<"x">>, "text", PStr(<<"h", "i">>), PStr(Q(<<"h", "i">>)))}

SubstituteColumnsPool ==
  ReferencedColumns \cup {FormulaColumn(<<"f">>, f) : f \in SubstituteTexts}

InitSubstitute == InitWith(ItemsOver(ColSeqs(SubstituteColumnsPool, 2)))
SpecSubstitute == InitSubstitute /\ [][NextSubstitute]_vars

\* a column u of each unsupported type, formula columns f over u, and a
\* numeric column a
UnsupportedColumns ==
  {Plain(<<"u">>, "button", PStr(<<>>), None),
   Plain(<<"u">>, "autonumber", PStr(<<"1", "2">>), PStr(Q(<<"1", "2">>))),
   Plain(<<"u">>, "columns-battery", None, None),
   Column(<<"u">>, "formula", PStr(<<>>), None, None, {"display_value"},
          PStr(<<"5">>))}
UnsupportedPool ==
  UnsupportedColumns
  \cup {FormulaColumn(<<"f">>, f) :
          f \in {<<"{", "u", "}", "+", "1">>, <<"{", "u", "}", "*", "{", "a", "}">>}}
  \cup {NumberColumn(<<"a">>, t) : t \in {<<"1", "0">>, <<"3", ".", "5">>}}

InitUnsupported == InitWith(ItemsOver(ColSeqs(UnsupportedPool, MaxCols)))
SpecUnsupported == InitUnsupported /\ [][Next]_vars

\* link-list columns: the raw value is null, {} or {"linkedPulseIds":[...]}
\* with the objects {"linkedPulseId":n}; the text names the linked items
K_linkedPulseId == <<"l", "i", "n", "k", "e", "d", "P", "u", "l", "s", "e", "I", "d">>
LinkedPulse(d) == <<"{">> \o Q(K_linkedPulseId) \o <<":", d, "}">>
LinkedPulseLists ==
  {<<>>, LinkedPulse("1"), LinkedPulse("1") \o <<",">> \o LinkedPulse("2")}
LinkValues ==
  {None, PStr(<<"{", "}">>)}
  \cup {PStr(<<"{">> \o Q(K_linkedPulseIds) \o <<":", "[">> \o l \o <<"]", "}">>) :
          l \in LinkedPulseLists}
LinkTexts ==
  {None, PStr(<<>>), PStr(<<"A">>), PStr(<<"A", ",", " ", "B">>),
   PStr(<<"A", ",", " ", "B", ",", " ", "C">>),
   PStr(<<"O", "'", "B", ",", " ", "C">>)}
LinkColumns ==
  {Plain(<<"l">>, ty, tx, v) :
     ty \in {"dependency", "board_relation", "subtasks"}, tx \in LinkTexts,
     v \in LinkValues}

InitLinks == InitWith(ItemsOver({<<c>> : c \in LinkColumns}))
SpecLinks == InitLinks /\ [][Next]_vars

\* filled cells of the types whose values parse_value rewrites, as the
\* platform sends them: checkbox, date (with and without a time), people,
\* file, link, dropdown and tags, numbers, link-list and mirror columns
FilledColumns ==
  {Plain(<<"c">>, "checkbox", PStr(<<"v">>),
         PStr(<<"{", "\"", "c", "h", "e", "c", "k", "e", "d", "\"", ":",
         "\"", "t", "r", "u", "e", "\"", "}">>)),
   Plain(<<"c">>, "checkbox", PStr(<<>>),
         PStr(<<"{", "\"", "c", "h", "e", "c", "k", "e", "d", "\"", ":",
         "\"", "f", "a", "l", "s", "e", "\"", "}">>)),
   Plain(<<"c">>, "date", PStr(<<"2", "0", "2", "4", "-", "0", "1", "-", "0", "2">>),
         PStr(<<"{", "\"", "d", "a", "t", "e", "\"", ":", "\"", "2", "0",
         "2", "4", "-", "0", "1", "-", "0", "2", "\"", ",", "\"", "t", "i",
         "m", "e", "\"", ":", "\"", "1", "0", ":", "0", "0", ":", "0", "0",
         "\"", "}">>)),
   Plain(<<"c">>, "date", PStr(<<"2", "0", "2", "4", "-", "0", "1", "-", "0", "2">>),
         PStr(<<"{", "\"", "d", "a", "t", "e", "\"", ":", "\"", "2", "0",
         "2", "4", "-", "0", "1", "-", "0", "2", "\"", ",", "\"", "t", "i",
         "m", "e", "\"", ":", "n", "u", "l", "l", "}">>)),
   Plain(<<"c">>, "people", PStr(<<"A", ",", " ", "B">>),
         PStr(<<"{", "\"", "p", "e", "r", "s", "o", "n", "s", "A", "n", "d",
         "T", "e", "a", "m", "s", "\"", ":", "[", "{", "\"", "i", "d", "\"",
         ":", "1", "}", ",", "{", "\"", "i", "d", "\"", ":", "2", "}", "]",
         "}">>)),
   Plain(<<"c">>, "people", PStr(<<"A">>),
         PStr(<<"{", "\"", "p", "e", "r", "s", "o", "n", "s", "A", "n", "d",
         "T", "e", "a", "m", "s", "\"", ":", "[", "{", "\"", "i", "d", "\"",
         ":", "1", "}", "]", "}">>)),
   Plain(<<"c">>, "file", PStr(<<"x">>),
         PStr(<<"{", "\"", "f", "i", "l", "e", "s", "\"", ":", "[", "{",
         "\"", "n", "a", "m", "e", "\"", ":", "\"", "x", "\"", "}", "]",
         "}">>)),
   Plain(<<"c">>, "link", PStr(<<"u">>),
         PStr(<<"{", "\"", "u", "r", "l", "\"", ":", "\"", "u", "\"", "}">>)),
   Plain(<<"c">>, "dropdown", PStr(<<"a", ",", " ", "b">>),
         PStr(<<"{", "\"", "i", "d", "s", "\"", ":", "[", "1", ",", "2",
         "]", "}">>)),
   Plain(<<"c">>, "dropdown", PStr(<<"a">>),
         PStr(<<"{", "\"", "i", "d", "s", "\"", ":", "[", "1", "]", "}">>)),
   Plain(<<"c">>, "tags", PStr(<<"a", ",", " ", "b">>),
         PStr(<<"{", "\"", "i", "d", "s", "\"", ":", "[", "1", ",", "2",
         "]", "}">>)),
   [Plain(<<"c">>, "checkbox", PStr(<<"v">>), None)
      EXCEPT !.keys = {"checked"}, !.checked = PBool(TRUE)]}
  \cup {NumberColumn(<<"c">>, t) :
          t \in {<<"1", "0">>, <<"3", ".", "5">>, <<"-", "5">>, <<"0">>, <<>>}}
  \cup {c \in LinkColumns : c.text # None /\ c.value # None}
  \cup {c \in MirrorColumns : c.display_value # None}

InitAgain == InitWith(ItemsOver({<<c>> : c \in FilledColumns}))
SpecAgain == InitAgain /\ [][NextAgain]_vars

(***************************************************************************)
(* services/async_firestore.py: the lock document locks/<lock_id>.         *)
(*   firestore.doc    the document: None when absent, else the stored      *)
(*                    expires_at (the server time of the write),           *)
(*                    expiration_seconds and owner                         *)
(*   firestore.now    the time, in seconds (the server's clock and the     *)
(*                    callers' datetime.now agree)                         *)
(*   firestore.calls  the calls made, in the order their transactions      *)
(*                    committed: op, owner, at (commit time), before and   *)
(*                    after (the document), wrote, acquired (what the      *)
(*                    transactional function returned), pc and returned    *)
(* A transaction reads and writes the document atomically (Firestore       *)
(* retries a transaction whose reads were overwritten); the read after the *)
(* transaction of acquire_lock_for_owner is a separate step.               *)
(***************************************************************************)
MaxCalls == 3
MaxTime == 2
Owners == {"A", "B"}
ExpirationSeconds == {1, 2}
\* os.environ.get("K_REVISION", "unknown")
K_REVISION == "unknown"

\* lines 41-46 and 121-126: the lock data written at server time now
lock_data(owner, expiration_seconds, now) ==
  [expires_at |-> now, expiration_seconds |-> expiration_seconds,
   locked |-> TRUE, owner |-> owner]

\* lines 64-69 and 117-119: the stored lock has not expired
unexpired(doc, now) == doc.expires_at + doc.expiration_seconds > now

\* the transactional function of acquire_lock_for_owner without the owner
\* test
update_for_owner_any_owner(doc, owner, expiration_seconds, now) ==
  IF doc # None /\ unexpired(doc, now)
  THEN [acquired |-> TRUE, wrote |-> FALSE, doc |-> doc]
  ELSE [acquired |-> TRUE, wrote |-> TRUE,
        doc |-> lock_data(owner, expiration_seconds, now)]

\* lines 48-76: update_in_transaction of acquire_lock_for_owner
update_for_owner(doc, owner, expiration_seconds, now) ==
  IF doc = None
  THEN [acquired |-> TRUE, wrote |-> TRUE,
        doc |-> lock_data(owner, expiration_seconds, now)]
  ELSE IF unexpired(doc, now)
  THEN [acquired |-> doc.owner = owner, wrote |-> FALSE, doc |-> doc]
  ELSE [acquired |-> TRUE, wrote |-> TRUE,
        doc |-> lock_data(owner, expiration_seconds, now)]

\* lines 115-128: update_in_transaction of acquire_lock; it returns False
\* or, after the write, None
update_in_transaction(doc, expiration_seconds, now) ==
  IF doc # None /\ unexpired(doc, now)
  THEN [acquired |-> FALSE, wrote |-> FALSE, doc |-> doc]
  ELSE [acquired |-> None, wrote |-> TRUE,
        doc |-> lock_data(K_REVISION, expiration_seconds, now)]

\* lines 80-108: the Lock returned with the flag, built from the document
\* as read after the transaction
returned_lock(acquired, doc, owner, expiration_seconds, now) ==
  IF doc # None THEN doc
  ELSE lock_data(IF acquired THEN owner ELSE "unknown", expiration_seconds,
                 now + expiration_seconds)

CanCall == pc = "idle" /\ Len(firestore.calls) < MaxCalls

Committed(op, owner, expiration_seconds, r, next_pc, returned) ==
  firestore' =
    [firestore EXCEPT
       !.doc = r.doc,
       !.calls = Append(@, [op |-> op, owner |-> owner,
                            expiration_seconds |-> expiration_seconds,
                            at |-> firestore.now, before |-> firestore.doc,
                            after |-> r.doc, wrote |-> r.wrote,
                            acquired |-> r.acquired, pc |-> next_pc,
                            returned |-> returned])]

\* lines 37-78: the call up to the end of its transaction
AcquireLockForOwner(owner, expiration_seconds) ==
  /\ CanCall
  /\ Committed("acquire_lock_for_owner", owner, expiration_seconds,
               update_for_owner(firestore.doc, owner, expiration_seconds,
                                firestore.now),
               "read", <<>>)
  /\ UNCHANGED <<item, pc, call, session>>

\* lines 80-108: the read after the transaction and the return
AcquireLockForOwnerReturn(t) ==
  /\ pc = "idle"
  /\ firestore.calls[t].pc = "read"
  /\ firestore' =
       [firestore EXCEPT
          !.calls[t].pc = "returned",
          !.calls[t].returned =
             <<firestore.calls[t].acquired,
               returned_lock(firestore.calls[t].acquired, firestore.doc,
                             firestore.calls[t].owner,
                             firestore.calls[t].expiration_seconds,
                             firestore.now)>>]
  /\ UNCHANGED <<item, pc, call, session>>

\* lines 110-133: the result of the transactional function is dropped and
\* True is returned
AcquireLock(expiration_seconds) ==
  /\ CanCall
  /\ Committed("acquire_lock", K_REVISION, expiration_seconds,
               update_in_transaction(firestore.doc, expiration_seconds,
                                     firestore.now),
               "returned", <<TRUE>>)
  /\ UNCHANGED <<item, pc, call, session>>

\* lines 135-146: the document is deleted, whoever owns it
ReleaseLock ==
  /\ CanCall
  /\ Committed("release_lock", "", 0,
               [acquired |-> None, wrote |-> firestore.doc # None, doc |-> None],
               "returned", <<>>)
  /\ UNCHANGED <<item, pc, call, session>>

\* time passes
Tick ==
  /\ pc = "idle"
  /\ firestore.now < MaxTime
  /\ firestore' = [firestore EXCEPT !.now = @ + 1]
  /\ UNCHANGED <<item, pc, call, session>>

NextLock ==
  \/ \E owner \in Owners, e \in ExpirationSeconds : AcquireLockForOwner(owner, e)
  \/ \E t \in 1..Len(firestore.calls) : AcquireLockForOwnerReturn(t)
  \/ \E e \in ExpirationSeconds : AcquireLock(e)
  \/ ReleaseLock
  \/ Tick

NoItem == [id |-> <<"7">>, name |-> ItemName, column_values |-> <<>>]

InitIdle ==
  /\ item = NoItem
  /\ pc = "idle"
  /\ call = NoCall(NoItem)
  /\ firestore = NoFirestore
  /\ session = NoSession
SpecLock == InitIdle /\ [][NextLock]_vars

(***************************************************************************)
(* services/monday.py, _execute_with_session(operation, max_retries).      *)
(*   session.pc        the position in the call: idle, open (before the    *)
(*                     session is created), operation (awaiting it),       *)
(*                     close (after its result), except (in the handler),  *)
(*                     sleep, returned, raised                             *)
(*   session.attempt   the loop variable                                   *)
(*   session.opened    the sessions created, session.closed those closed   *)
(*   session.outcomes  the outcome of every invocation of the operation: a *)
(*                     result or the exception it raised                   *)
(*   session.delays    the delays slept                                    *)
(***************************************************************************)
MaxRetries == 3
\* the exceptions of the except clause (lines 1005-1010)
ConnectionErrors ==
  {"ClientError", "ServerDisconnectedError", "TimeoutError",
   "ConnectionResetError"}
\* what awaiting the operation gives: its result, a connection or timeout
\* error, or another exception (line 1045: raise Exception(...))
Outcomes == {"result"} \cup ConnectionErrors \cup {"Exception"}

\* line 1021: min(2**attempt, 10)
delay(attempt) == IF 2^attempt < 10 THEN 2^attempt ELSE 10

\* lines 977-991: the call; range(max_retries + 1) is not empty
ExecuteWithSession(max_retries) ==
  /\ pc = "idle" /\ session.pc = "idle"
  /\ session' = [NoSession EXCEPT !.pc = "open", !.max_retries = max_retries]
  /\ UNCHANGED <<item, pc, call, firestore>>

\* lines 989-1001: session = ClientSession(...), the client around it
OpenSession ==
  /\ session.pc = "open"
  /\ session' = [session EXCEPT !.pc = "operation", !.opened = @ + 1]
  /\ UNCHANGED <<item, pc, call, firestore>>

\* line 1002: result = await operation(client); an exception of the except
\* clause enters the handler, any other leaves the function
Operation(outcome) ==
  /\ session.pc = "operation"
  /\ session' =
       [session EXCEPT
          !.outcomes = Append(@, outcome),
          !.pc = IF outcome = "result" THEN "close"
                 ELSE IF outcome \in ConnectionErrors THEN "except"
                 ELSE "raised",
          !.last_exception = IF outcome \in ConnectionErrors THEN outcome ELSE @,
          !.raised = IF outcome \notin ConnectionErrors \cup {"result"}
                     THEN outcome ELSE @]
  /\ UNCHANGED <<item, pc, call, firestore>>

\* lines 1003-1004: await session.close(); return result
CloseAndReturn ==
  /\ session.pc = "close"
  /\ session' = [session EXCEPT !.pc = "returned", !.closed = @ + 1]
  /\ UNCHANGED <<item, pc, call, firestore>>

\* lines 1011-1019: the handler closes the session and, on the last
\* attempt, raises the exception again
CloseAfterError ==
  /\ session.pc = "except"
  /\ session' =
       [session EXCEPT
          !.closed = @ + 1,
          !.pc = IF session.attempt = session.max_retries THEN "raised"
                 ELSE "sleep",
          !.raised = IF session.attempt = session.max_retries
                     THEN session.last_exception ELSE @]
  /\ UNCHANGED <<item, pc, call, firestore>>

\* lines 1021-1022 and the next iteration of line 987
Sleep ==
  /\ session.pc = "sleep"
  /\ session' = [session EXCEPT !.pc = "open", !.attempt = @ + 1,
                                !.delays = Append(@, delay(session.attempt))]
  /\ UNCHANGED <<item, pc, call, firestore>>

NextSession ==
  \/ \E max_retries \in 0..MaxRetries : ExecuteWithSession(max_retries)
  \/ OpenSession
  \/ \E outcome \in Outcomes : Operation(outcome)
  \/ CloseAndReturn
  \/ CloseAfterError
  \/ Sleep

SpecSession == InitIdle /\ [][NextSession]_vars

(***************************************************************************)
(* Properties of parse_item_column_values.                                 *)
(***************************************************************************)
NormalizerDone == pc = "done" /\ call.op = "parse_item_column_values"
NormalizerReturned == NormalizerDone /\ ~call.raised

UnsupportedTypes == {"formula", "autonumber", "columns-battery", "button"}

\* the columns of cols whose type is supported, in order
SupportedOf(cols) == SelectSeq(cols, LAMBDA c : c.type \notin UnsupportedTypes)

\* the integer a string of digits denotes
DecimalValue(s) == DigitsVal(s)

\* C1: whenever parse_item_column_values returns, the first element of the
\* list is the synthetic column id/item_id holding the integer item id, the
\* second is the synthetic column name/name holding the item name, and no
\* later element is one of the two.
C1_SyntheticColumnsFirst ==
  NormalizerReturned =>
    /\ Len(call.ret) >= 2
    /\ call.ret[1].id = <<"i", "d">>
    /\ call.ret[1].type = "item_id"
    /\ call.ret[1].value = PInt(DecimalValue(call.entry.id))
    /\ call.ret[2].id = <<"n", "a", "m", "e">>
    /\ call.ret[2].type = "name"
    /\ call.ret[2].value = PStr(call.entry.name)
    /\ \A k \in 3..Len(call.ret) : call.ret[k].type \notin {"item_id", "name"}

\* C1 witness: a returned list for an item of three columns, the first of
\* them unsupported, with both synthetic columns in front
C1_Witness ==
  /\ NormalizerReturned
  /\ Len(call.entry.column_values) = 3
  /\ call.entry.column_values[1].type \in UnsupportedTypes
  /\ call.entry.id = <<"4", "2">>
  /\ Len(call.ret) = 4
  /\ call.ret[1].value = PInt(42)
  /\ call.ret[2].type = "name"

\* C2: whenever parse_item_column_values returns, no element of the list has
\* a type of UNSUPPORTED_MONDAY_COLUMN_TYPES.
C2_NoUnsupportedType ==
  NormalizerReturned =>
    \A k \in 1..Len(call.ret) : call.ret[k].type \notin UnsupportedTypes

\* C2 witness: a returned list for an item holding a formula column and a
\* button-like column next to a supported one
C2_Witness ==
  /\ NormalizerReturned
  /\ \E j \in 1..Len(call.entry.column_values) :
       call.entry.column_values[j].type = "formula"
  /\ \E j \in 1..Len(call.entry.column_values) :
       call.entry.column_values[j].type \in {"autonumber", "button", "columns-battery"}
  /\ Len(call.ret) = 3

\* C3: every call of parse_item_column_values returns a list of at least the
\* two synthetic columns; none ends in an exception.
C3_NeverRaises ==
  NormalizerDone => (~call.raised /\ Len(call.ret) >= 2)

\* C4: whenever parse_item_column_values returns, the elements after the two
\* synthetic columns are the supported input columns (same id, type and
\* text), one each, in the order of item["column_values"].
C4_SupportedColumnsInOrder ==
  NormalizerReturned =>
    LET want == SupportedOf(call.entry.column_values)
    IN /\ Len(call.ret) = Len(want) + 2
       /\ \A k \in 1..Len(want) :
            /\ call.ret[k + 2].id = want[k].id
            /\ call.ret[k + 2].type = want[k].type
            /\ call.ret[k + 2].text = want[k].text

\* C4 witness: two supported columns around an unsupported one come back in
\* their input order
C4_Witness ==
  /\ NormalizerReturned
  /\ Len(call.entry.column_values) = 3
  /\ call.entry.column_values[1].type = "text"
  /\ call.entry.column_values[2].type \in UnsupportedTypes
  /\ call.entry.column_values[3].type = "numbers"
  /\ Len(call.ret) = 4
  /\ call.ret[3].type = "text"
  /\ call.ret[4].type = "numbers"

(***************************************************************************)
(* Properties of parse_value.                                              *)
(***************************************************************************)
ValueDone == pc = "done" /\ call.op = "parse_value"
ValueReturned == ValueDone /\ ~call.raised

\* the column parse_value was called on, as it was on entry
EntryColumn == call.entry.column_values[call.arg]

\* raw text empty or null and raw value falsy
EmptyCell(c) ==
  /\ c.text \in {None, PStr(<<>>)}
  /\ c.value \in {None, PStr(<<>>), PInt(0), PBool(FALSE), PList(<<>>), PDict(<<>>)}

\* C5 as stated: for every type other than vote, formula and mirror included,
\* a column with empty or null text and a falsy value is returned with the
\* value it had on entry.
C5_PassthroughExceptVote ==
  (ValueDone /\ EntryColumn.type # "vote" /\ EmptyCell(EntryColumn)) =>
    (~call.raised /\ call.ret[1].value = EntryColumn.value)

\* C5 amended: for every type other than vote, votes, formula and mirror, a
\* column with empty or null text and a falsy value is returned with the
\* value it had on entry.
C5_PassthroughOutsideGuardList ==
  (/\ ValueDone
   /\ EntryColumn.type \notin {"vote", "votes", "formula", "mirror"}
   /\ EmptyCell(EntryColumn)) =>
    (~call.raised /\ call.ret[1].value = EntryColumn.value)

\* C5 witness: an empty numbers cell holding the falsy value 0 comes back
\* with that value
C5_Witness ==
  /\ ValueReturned
  /\ EntryColumn.type = "numbers"
  /\ EntryColumn.text = PStr(<<>>)
  /\ EntryColumn.value = PInt(0)
  /\ call.ret[1].value = PInt(0)

\* C6: a vote column with empty text is returned with value 0 whatever its
\* raw value; with a non-empty text of digits it is returned with int(text).
C6_VoteValue ==
  (ValueDone /\ EntryColumn.type = "vote") =>
    /\ EntryColumn.text = PStr(<<>>) =>
         (~call.raised /\ call.ret[1].value = PInt(0))
    /\ EntryColumn.text = PStr(<<"7">>) =>
         (~call.raised /\ call.ret[1].value = PInt(7))

\* the number a well-formed text of the input alphabet denotes
NumeralValue(text) ==
  CASE text = <<"7">> -> PInt(7)
    [] text = <<"-", "4">> -> PInt(-4)
    [] text = <<"3", ".", "5">> -> PFloat(7, 2)

Numerals == {<<"7">>, <<"-", "4">>, <<"3", ".", "5">>}

\* C7 as stated: a numbers column is returned with a float when text
\* contains ".", an int when text is non-empty without ".", and 0 when text
\* is empty, whatever the raw value.
C7_NumbersValue ==
  (/\ ValueDone
   /\ EntryColumn.type = "numbers"
   /\ EntryColumn.text.k = "str"
   /\ EntryColumn.text.s \in Numerals \cup {<<>>}) =>
    /\ ~call.raised
    /\ call.ret[1].value =
         IF EntryColumn.text.s = <<>> THEN PInt(0)
         ELSE NumeralValue(EntryColumn.text.s)

\* C7 amended: a numbers column whose text is a decimal numeral is returned
\* with a float when text contains "." and an int otherwise; with empty text
\* it is returned with 0 when the raw value is truthy and with its value
\* unchanged when the raw value is falsy.
C7_NumbersValueUnlessPassthrough ==
  (/\ ValueDone
   /\ EntryColumn.type = "numbers"
   /\ EntryColumn.text.k = "str"
   /\ EntryColumn.text.s \in Numerals \cup {<<>>}) =>
    /\ ~call.raised
    /\ call.ret[1].value =
         IF EntryColumn.text.s # <<>> THEN NumeralValue(EntryColumn.text.s)
         ELSE IF Truthy(EntryColumn.value) THEN PInt(0)
         ELSE EntryColumn.value
    /\ call.ret[1].value.k =
         IF EntryColumn.text.s # <<>>
         THEN (IF Contains(EntryColumn.text.s, <<".">>) THEN "float" ELSE "int")
         ELSE IF Truthy(EntryColumn.value) THEN "int"
         ELSE EntryColumn.value.k

\* C7 witness: text "3.5" gives the float 3.5
C7_Witness ==
  /\ ValueReturned
  /\ EntryColumn.type = "numbers"
  /\ EntryColumn.text = PStr(<<"3", ".", "5">>)
  /\ call.ret[1].value = PFloat(7, 2)

(***************************************************************************)
(* Properties of the formula evaluator.                                    *)
(***************************************************************************)
\* the formula of a formula column whose display_value is "null"
IsFormula(c, f) ==
  /\ c.type = "formula"
  /\ "display_value" \in c.keys
  /\ c.display_value = PStr(S_null)
  /\ c.settings_str = FormulaSettings(f)

\* the entry columns with the given id
EntryWithId(id) ==
  {j \in 1..Len(call.entry.column_values) : call.entry.column_values[j].id = id}

\* the number the text of an input numbers column denotes
TextValue(text) ==
  CASE text = <<"1", "0">> -> PInt(10)
    [] text = <<"3", ".", "5">> -> PFloat(7, 2)
    [] text = <<"-", "5">> -> PInt(-5)
    [] text = <<"3">> -> PInt(3)
    [] text = <<"0">> -> PInt(0)
    [] text = <<"-", "2">> -> PInt(-2)
    [] text = <<"0", ".", "0">> -> PFloat(0, 1)

\* column id of the entry item is a numbers column with a numeral as text
NumericEntry(id) ==
  \E j \in EntryWithId(id) :
    /\ call.entry.column_values[j].type = "numbers"
    /\ call.entry.column_values[j].text.k = "str"
    /\ call.entry.column_values[j].text.s # <<>>

ValueOfEntry(id) ==
  TextValue(call.entry.column_values[CHOOSE j \in EntryWithId(id) : TRUE].text.s)

\* what each arithmetic formula of the inputs denotes for a and b
Denotes(f, a, b) ==
  CASE f = <<"{", "a", "}", "-", "{", "b", "}">> -> NumSub(a, b)
    [] f = <<"{", "a", "}", "+", "{", "b", "}">> -> NumAdd(a, b)
    [] f = <<"{", "a", "}", "*", "{", "b", "}">> -> NumMul(a, b)
    [] f = <<"{", "a", "}", "/", "{", "b", "}">> -> NumDiv(a, b).v
    [] f = <<"{", "a", "}", "-", "{", "b", "}", "*", "{", "a", "}">> ->
         NumSub(a, NumMul(b, a))
    [] f = <<"D", "I", "V", "I", "D", "E", "(", "{", "a", "}", ",", "{", "b", "}", ")">> ->
         NumDiv(a, b).v
    [] f = <<"M", "O", "D", "(", "{", "a", "}", ",", "{", "b", "}", ")">> ->
         NumMod(a, b).v

Divisions ==
  {<<"{", "a", "}", "/", "{", "b", "}">>,
   <<"D", "I", "V", "I", "D", "E", "(", "{", "a", "}", ",", "{", "b", "}", ")">>,
   <<"M", "O", "D", "(", "{", "a", "}", ",", "{", "b", "}", ")">>}

ArithmeticFormulas ==
  Divisions \cup
  {<<"{", "a", "}", "-", "{", "b", "}">>, <<"{", "a", "}", "+", "{", "b", "}">>,
   <<"{", "a", "}", "*", "{", "b", "}">>,
   <<"{", "a", "}", "-", "{", "b", "}", "*", "{", "a", "}">>}

\* C8: parse_value of a formula column with display_value "null" whose
\* formula is an arithmetic expression over {a} and {b}, both numeric columns
\* of the item (no division by zero), returns the column with the value the
\* expression has for the numbers the two columns hold.
C8_FormulaEvaluates ==
  \A f \in ArithmeticFormulas :
    (/\ ValueDone
     /\ IsFormula(EntryColumn, f)
     /\ NumericEntry(<<"a">>) /\ NumericEntry(<<"b">>)
     /\ (f \in Divisions => Num(ValueOfEntry(<<"b">>)) # 0)) =>
      /\ ~call.raised
      /\ call.ret[1].value = Denotes(f, ValueOfEntry(<<"a">>), ValueOfEntry(<<"b">>))

\* C8 witness: "{a}-{b}" with a = 10 and b = 3 gives 7
C8_Witness ==
  /\ ValueReturned
  /\ IsFormula(EntryColumn, <<"{", "a", "}", "-", "{", "b", "}">>)
  /\ NumericEntry(<<"a">>) /\ NumericEntry(<<"b">>)
  /\ ValueOfEntry(<<"a">>) = PInt(10)
  /\ ValueOfEntry(<<"b">>) = PInt(3)
  /\ call.ret[1].value = PInt(7)

\* C9: parse_value of a formula column whose expression divides numeric a by
\* numeric b, b being zero (text "0" or "0.0"), returns the column with
\* value 0 and raises nothing.
C9_DivisionByZeroGivesZero ==
  \A f \in Divisions :
    (/\ ValueDone
     /\ IsFormula(EntryColumn, f)
     /\ NumericEntry(<<"a">>) /\ NumericEntry(<<"b">>)
     /\ Num(ValueOfEntry(<<"b">>)) = 0) =>
      (~call.raised /\ call.ret[1].value = PInt(0))

\* some placeholder of f names no column of the entry item
MissingPlaceholder(f) ==
  \E k \in 1..Len(findall_names(f, 1)) : EntryWithId(findall_names(f, 1)[k]) = {}

FirstMissing(f) ==
  CHOOSE k \in 1..Len(findall_names(f, 1)) :
    /\ EntryWithId(findall_names(f, 1)[k]) = {}
    /\ \A h \in 1..(k - 1) : EntryWithId(findall_names(f, 1)[h]) # {}

FormulaEntry == EntryColumn.type = "formula" /\ "display_value" \in EntryColumn.keys

\* C11: parse_value of a formula column raises nothing, whatever its
\* settings, its formula and the columns the formula names, and returns the
\* column.
C11_FormulaNeverRaises ==
  (ValueDone /\ FormulaEntry) => (~call.raised /\ Len(call.ret) = 1)

\* C17: parse_value of a column that is neither formula nor mirror raises
\* nothing: when the rule of its type cannot be applied it returns the
\* column with value = text.
C17_FallsBackToText ==
  (ValueDone /\ EntryColumn.type \notin {"formula", "mirror"}) =>
    /\ ~call.raised
    /\ ~dispatch(json_predecode(EntryColumn)).ok =>
         call.ret[1].value = EntryColumn.text

\* the columns of the item other than the one parse_value was called on
Siblings == (1..Len(item.column_values)) \ {call.arg}

\* C18: after parse_value of a formula or mirror column every other column
\* of the item has the value, text and type it had before the call.
C18_SiblingsUnchanged ==
  (ValueDone /\ EntryColumn.type \in {"formula", "mirror"}) =>
    \A j \in Siblings :
      /\ item.column_values[j].value = call.entry.column_values[j].value
      /\ item.column_values[j].text = call.entry.column_values[j].text
      /\ item.column_values[j].type = call.entry.column_values[j].type

\* C19: parse_value reaches a return for every column and column map, a
\* formula that names itself included: the nesting of parse_value frames
\* never exhausts the stack.
C19_RecursionReturns ==
  ValueDone => call.msg # "RecursionError"

\* C20: parse_value of a formula column whose display_value is not "null"
\* returns the column with value = display_value; it reads no settings,
\* resolves no referenced column (every sibling is as it was) and raises
\* nothing.
C20_CheapPath ==
  (ValueDone /\ FormulaEntry /\ EntryColumn.display_value # PStr(S_null)) =>
    /\ ~call.raised
    /\ call.ret[1].value = EntryColumn.display_value
    /\ \A j \in Siblings : item.column_values[j] = call.entry.column_values[j]

\* C20 witness: display_value "7" is returned as the value although the
\* formula names a column b whose own parsing would raise
C20_Witness ==
  /\ ValueReturned
  /\ FormulaEntry
  /\ EntryColumn.display_value = PStr(<<"7">>)
  /\ \E j \in EntryWithId(<<"b">>) : call.entry.column_values[j].type = "rating"
  /\ call.ret[1].value = PStr(<<"7">>)

(***************************************************************************)
(* Properties of the mirror aggregator.                                    *)
(***************************************************************************)
\* the entry column is a mirror column whose settings name the function fn
MirrorWith(fn) ==
  EntryColumn.type = "mirror" /\ EntryColumn.settings_str = MirrorSettings(fn)

\* display values whose non-blank tokens are all numbers
NumericDisplays ==
  {<<"3", ",", " ", "4", ",", " ", "5">>,
   <<"1", ",", " ", "2", ",", " ", "3", ",", " ", "1", "0", "0">>,
   <<"3", ",", " ", ",", " ", "5">>,
   <<"7">>}

EntryHasNumericDisplay ==
  /\ "display_value" \in EntryColumn.keys
  /\ EntryColumn.display_value.k = "str"
  /\ EntryColumn.display_value.s \in NumericDisplays

\* sum, median and mean of the non-blank tokens of each numeric display value
SumOf(dv) ==
  CASE dv = <<"3", ",", " ", "4", ",", " ", "5">> -> PFloat(12, 1)
    [] dv = <<"1", ",", " ", "2", ",", " ", "3", ",", " ", "1", "0", "0">> ->
         PFloat(106, 1)
    [] dv = <<"3", ",", " ", ",", " ", "5">> -> PFloat(8, 1)
    [] dv = <<"7">> -> PFloat(7, 1)

MedianOf(dv) ==
  CASE dv = <<"3", ",", " ", "4", ",", " ", "5">> -> PFloat(4, 1)
    [] dv = <<"1", ",", " ", "2", ",", " ", "3", ",", " ", "1", "0", "0">> ->
         PFloat(5, 2)
    [] dv = <<"3", ",", " ", ",", " ", "5">> -> PFloat(4, 1)
    [] dv = <<"7">> -> PFloat(7, 1)

MeanOf(dv) ==
  CASE dv = <<"3", ",", " ", "4", ",", " ", "5">> -> PFloat(4, 1)
    [] dv = <<"1", ",", " ", "2", ",", " ", "3", ",", " ", "1", "0", "0">> ->
         PFloat(53, 2)
    [] dv = <<"3", ",", " ", ",", " ", "5">> -> PFloat(4, 1)
    [] dv = <<"7">> -> PFloat(7, 1)

\* the aggregate parse_value stored in value.display_value
StoredAggregate == DictGet(call.ret[1].value, K_display_value)

\* C12: for a mirror column with function sum (median) the aggregate stored
\* in value.display_value is the sum (the median) of the non-blank tokens of
\* display_value split on ", ", each coerced to a number.
C12_SumAndMedian ==
  (ValueDone /\ EntryHasNumericDisplay) =>
    /\ MirrorWith(<<"s", "u", "m">>) =>
         (/\ ~call.raised
          /\ call.ret[1].value.k = "dict"
          /\ StoredAggregate = SumOf(EntryColumn.display_value.s))
    /\ MirrorWith(<<"m", "e", "d", "i", "a", "n">>) =>
         (/\ ~call.raised
          /\ call.ret[1].value.k = "dict"
          /\ StoredAggregate = MedianOf(EntryColumn.display_value.s))

\* C12 witness: the median of "1, 2, 3, 100" is 2.5
C12_Witness ==
  /\ ValueReturned
  /\ MirrorWith(<<"m", "e", "d", "i", "a", "n">>)
  /\ EntryColumn.display_value =
       PStr(<<"1", ",", " ", "2", ",", " ", "3", ",", " ", "1", "0", "0">>)
  /\ StoredAggregate = PFloat(5, 2)

\* C13: for a mirror column with function average the aggregate is the sum
\* of the non-blank tokens divided by the number of non-blank tokens.
C13_AverageSkipsBlanks ==
  (/\ ValueDone
   /\ EntryHasNumericDisplay
   /\ MirrorWith(<<"a", "v", "e", "r", "a", "g", "e">>)) =>
    /\ ~call.raised
    /\ call.ret[1].value.k = "dict"
    /\ StoredAggregate = MeanOf(EntryColumn.display_value.s)

\* the settings of the entry column configure none of the six functions
NoFunction ==
  \A fn \in AggregateFunctions : EntryColumn.settings_str # MirrorSettings(fn)

\* C14: the value parse_value returns for a mirror column is an object with
\* exactly the keys display_value and mirrored_items; mirrored_items is the
\* column's list, or the empty list when the column has none; display_value
\* is the raw display_value when no aggregation function is configured.
C14_MirrorValueShape ==
  (ValueReturned /\ EntryColumn.type = "mirror") =>
    /\ call.ret[1].value.k = "dict"
    /\ Len(call.ret[1].value.kv) = 2
    /\ call.ret[1].value.kv[1].key = K_display_value
    /\ call.ret[1].value.kv[2].key = K_mirrored_items
    /\ call.ret[1].value.kv[2].val =
         IF "mirrored_items" \in EntryColumn.keys
         THEN EntryColumn.mirrored_items ELSE PList(<<>>)
    /\ NoFunction =>
         call.ret[1].value.kv[1].val =
           IF "display_value" \in EntryColumn.keys
           THEN EntryColumn.display_value ELSE None

\* C14 witness: no function configured, one linked item: the raw
\* display_value and the linked item are returned
C14_Witness ==
  /\ ValueReturned
  /\ EntryColumn.type = "mirror"
  /\ EntryColumn.settings_str = None
  /\ EntryColumn.display_value = PStr(<<"3", ",", " ", "4", ",", " ", "5">>)
  /\ "mirrored_items" \in EntryColumn.keys
  /\ call.ret[1].value.kv[1].val = PStr(<<"3", ",", " ", "4", ",", " ", "5">>)
  /\ call.ret[1].value.kv[2].val = PList(<<LinkedItem>>)

\* C15: parse_value of a mirror column raises nothing, whatever the
\* configured function and the display_value.
C15_MirrorNeverRaises ==
  (ValueDone /\ EntryColumn.type = "mirror") => ~call.raised

(***************************************************************************)
(* Properties of SWITCH.                                                   *)
(***************************************************************************)
\* the number the text of the column a of the entry item denotes
SwitchValue ==
  LET text == call.entry.column_values[CHOOSE j \in EntryWithId(<<"a">>) : TRUE].text.s
  IN CASE text = <<"1">> -> PInt(1)
       [] text = <<"2">> -> PInt(2)
       [] text = <<"9">> -> PInt(9)
       [] text = <<"2", ".", "0">> -> PFloat(2, 1)

Is(v, n) == Num(v) = n * Den(v)

\* what each SWITCH formula of the inputs denotes when {a} is v: the value
\* paired with the first key equal to v, else the default, else none
SwitchDenotes(f, v) ==
  CASE f = <<"S", "W", "I", "T", "C", "H", "(", "{", "a", "}", ",", "1", ",", "'", "a",
             "'", ",", "2", ",", "'", "b", "'", ",", "'", "d", "'", ")">> ->
         (IF Is(v, 1) THEN PStr(<<"a">>) ELSE IF Is(v, 2) THEN PStr(<<"b">>)
          ELSE PStr(<<"d">>))
    [] f = <<"S", "W", "I", "T", "C", "H", "(", "{", "a", "}", ",", "1", ",", "'", "a",
             "'", ",", "2", ",", "'", "b", "'", ")">> ->
         (IF Is(v, 1) THEN PStr(<<"a">>) ELSE IF Is(v, 2) THEN PStr(<<"b">>)
          ELSE None)
    [] f = <<"S", "W", "I", "T", "C", "H", "(", "{", "a", "}", ",", "2", ",", "'", "x",
             "'", ",", "2", ",", "'", "y", "'", ",", "'", "d", "'", ")">> ->
         (IF Is(v, 2) THEN PStr(<<"x">>) ELSE PStr(<<"d">>))
    [] f = <<"S", "W", "I", "T", "C", "H", "(", "{", "a", "}", ",", "'", "d", "'", ")">> ->
         PStr(<<"d">>)
    [] f = <<"S", "W", "I", "T", "C", "H", "(", "{", "a", "}", ")">> -> None

\* C16: SWITCH(value, k1, v1, ..., kn, vn, [default]) is the vi of the first
\* ki equal to value; with no such key it is the default when an odd
\* number of arguments follows value, none otherwise.
C16_SwitchFirstMatch ==
  \A f \in SwitchTexts :
    (ValueDone /\ IsFormula(EntryColumn, f) /\ EntryWithId(<<"a">>) # {}) =>
      (~call.raised /\ call.ret[1].value = SwitchDenotes(f, SwitchValue))

\* C16 witness: SWITCH(2, 2, 'x', 2, 'y', 'd') is 'x', the first match
C16_Witness ==
  /\ ValueReturned
  /\ IsFormula(EntryColumn,
               <<"S", "W", "I", "T", "C", "H", "(", "{", "a", "}", ",", "2", ",", "'",
                 "x", "'", ",", "2", ",", "'", "y", "'", ",", "'", "d", "'", ")">>)
  /\ EntryWithId(<<"a">>) # {}
  /\ SwitchValue = PInt(2)
  /\ call.ret[1].value = PStr(<<"x">>)

(***************************************************************************)
(* Properties of the resolution of referenced columns.                     *)
(***************************************************************************)
\* the column of the entry item with the given id
EntryCol(id) == call.entry.column_values[CHOOSE j \in EntryWithId(id) : TRUE]

\* the entry item has a column g holding the formula gf (display_value "null")
InnerIs(gf) == EntryWithId(<<"g">>) # {} /\ IsFormula(EntryCol(<<"g">>), gf)

\* C21: a formula f = "{g}*2" over a formula g (both display_value "null")
\* is evaluated with the result of g: with g = "{a}+1" it is (a + 1) * 2;
\* when g cannot be evaluated (its reference is missing) f is not computed
\* from a guessed value: its value stays "null".
C21_NestedFormula ==
  (ValueDone /\ IsFormula(EntryColumn, <<"{", "g", "}", "*", "2">>)) =>
    /\ (InnerIs(<<"{", "a", "}", "+", "1">>) /\ NumericEntry(<<"a">>)) =>
         (/\ ~call.raised
          /\ call.ret[1].value =
               NumMul(NumAdd(ValueOfEntry(<<"a">>), PInt(1)), PInt(2)))
    /\ (\/ InnerIs(<<"{", "z", "z", "}", "+", "1">>)
        \/ (InnerIs(<<"{", "a", "}", "+", "1">>) /\ EntryWithId(<<"a">>) = {})) =>
         (~call.raised /\ call.ret[1].value = PStr(S_null))

(***************************************************************************)
(* Properties of the operator normalization.                               *)
(***************************************************************************)
OperatorsDone == pc = "done" /\ call.op = "normalize_operators"

\* every "=" of s is a single "=" or the end of "<=", ">=" or "!="
SingleEquals(s) == \A i \in 1..(Len(s) - 1) : ~(s[i] = "=" /\ s[i + 1] = "=")

\* s with every "=" that does not end "<=", ">=" or "!=" written "=="
RECURSIVE DoubledFrom(_, _)
DoubledFrom(s, i) ==
  IF i > Len(s) THEN <<>>
  ELSE (IF s[i] = "=" /\ ~(i > 1 /\ s[i - 1] \in {"<", ">", "!"})
        THEN <<"=", "=">> ELSE <<s[i]>>) \o DoubledFrom(s, i + 1)

\* C22: the normalization of a formula text (whose "=" are single or part
\* of "<=", ">=", "!=") writes every single "=" as "==", leaves every "<=",
\* ">=" and "!=" as it was, and its result contains no "<==", ">==", "!==".
C22_OperatorNormalization ==
  (OperatorsDone /\ SingleEquals(call.ret[1])) =>
    /\ call.ret[2] = DoubledFrom(call.ret[1], 1)
    /\ ~Contains(call.ret[2], <<"<", "=", "=">>)
    /\ ~Contains(call.ret[2], <<">", "=", "=">>)
    /\ ~Contains(call.ret[2], <<"!", "=", "=">>)

\* C22 witness: "a=<=" becomes "a==<="
C22_Witness ==
  /\ OperatorsDone
  /\ call.ret[1] = <<"a", "=", "<", "=">>
  /\ call.ret[2] = <<"a", "=", "=", "<", "=">>

(***************************************************************************)
(* Properties of the placeholder substitution.                             *)
(***************************************************************************)
SubstituteDone == pc = "done" /\ call.op = "substitute_columns"

\* the value the column x of the entry item resolves to is null, "" or
\* "null": an empty numbers cell, a status cell with empty text, a formula
\* left at "null", a text cell holding null
ResolvesToNothing(x) ==
  \/ x.type = "numbers" /\ x.text = PStr(<<>>)
  \/ x.type = "status" /\ x.text = PStr(<<>>)
  \/ x.type = "formula" /\ x.display_value = PStr(S_null)
  \/ x.type = "text" /\ x.text = None /\ x.value = None

\* a mirror column and the text of its aggregated display_value
MirrorAggregateText(x) ==
  IF x.settings_str = MirrorSettings(<<"s", "u", "m">>) THEN <<"7", ".", "0">>
  ELSE IF x.display_value = None THEN <<"0">>
  ELSE x.display_value.s

\* the formula text f with every {x} and {x}#Labels written r
Substituted(f, r) ==
  CASE f = <<"{", "x", "}", "+", "1">> -> r \o <<"+", "1">>
    [] f = <<"{", "x", "}", "#", "L", "a", "b", "e", "l", "s", "+", "{", "x", "}">> ->
         r \o <<"+">> \o r
    [] f = <<"{", "x", "}", "*", "{", "x", "}", "#", "L", "a", "b", "e", "l", "s">> ->
         r \o <<"*">> \o r

\* C23: the substitution writes 0 for a referenced column whose resolved
\* value is null, "" or "null", and the aggregated display_value for a
\* mirror column; every occurrence of the placeholder, with or without
\* "#Labels", is replaced.
C23_Substitution ==
  (SubstituteDone /\ EntryWithId(<<"x">>) # {}) =>
    /\ ~call.raised
    /\ ResolvesToNothing(EntryCol(<<"x">>)) =>
         call.ret[2] = Substituted(call.ret[1], <<"0">>)
    /\ EntryCol(<<"x">>).type = "mirror" =>
         call.ret[2] =
           Substituted(call.ret[1], MirrorAggregateText(EntryCol(<<"x">>)))
    /\ ~Contains(call.ret[2], <<"{", "x", "}">>)
    /\ ~Contains(call.ret[2], <<"#", "L", "a", "b", "e", "l", "s">>)
(***************************************************************************)
(* Properties of the column map.                                           *)
(***************************************************************************)
\* what a referenced column u of unsupported type stands for in a formula
UnsupportedOperand(u) ==
  IF u.type = "autonumber" THEN PInt(12)
  ELSE IF u.type = "formula" THEN PInt(5)
  ELSE PInt(0)

\* C24: the column map holds every column of the item under its id, the
\* columns of unsupported type included, so a formula "{u}+1" whose column
\* u is of an unsupported type is computed from u instead of being left at
\* "null" for a missing reference.
C24_MapHoldsUnsupported ==
  ValueDone =>
    /\ \A j \in 1..Len(call.entry.column_values) :
         Let(MapGet(call.entry.column_values, call.entry.column_values[j].id),
             LAMBDA h :
               /\ h # 0
               /\ call.entry.column_values[h].id = call.entry.column_values[j].id)
    /\ (/\ IsFormula(EntryColumn, <<"{", "u", "}", "+", "1">>)
        /\ EntryWithId(<<"u">>) # {}) =>
         (/\ ~call.raised
          /\ call.ret[1].value =
               NumAdd(UnsupportedOperand(EntryCol(<<"u">>)), PInt(1)))

\* C24 witness: "{u}+1" over an autonumber column u holding 12 gives 13
C24_Witness ==
  /\ ValueDone
  /\ IsFormula(EntryColumn, <<"{", "u", "}", "+", "1">>)
  /\ EntryWithId(<<"u">>) # {}
  /\ EntryCol(<<"u">>).type = "autonumber"
  /\ ~call.raised
  /\ call.ret[1].value = PInt(13)


(***************************************************************************)
(* Properties of the link-list columns.                                    *)
(***************************************************************************)
LinkEntry ==
  /\ ValueDone
  /\ EntryColumn.type \in {"dependency", "board_relation", "subtasks"}
  /\ EntryColumn.value # None

\* the raw value of the entry column, decoded
EntryDecoded == json_loads(EntryColumn.value.s).v

\* the ", "-separated segments of the entry column's text
EntrySegments ==
  IF EntryColumn.text = None THEN <<>>
  ELSE Split(EntryColumn.text.s, <<",", " ">>)

\* C25: for a link-list column whose decoded value has a linkedPulseIds
\* list of n entries parse_value returns a list of n objects, the i-th being
\* the i-th linked id with the i-th ", "-separated segment of the text
\* (single quotes escaped); without linkedPulseIds it returns [].
C25_LinkedItems ==
  LinkEntry =>
    IF DictHas(EntryDecoded, K_linkedPulseIds)
    THEN Let(DictGet(EntryDecoded, K_linkedPulseIds).l, LAMBDA ids :
           /\ ~call.raised
           /\ call.ret[1].value.k = "list"
           /\ Len(call.ret[1].value.l) = Len(ids)
           /\ \A i \in 1..Len(ids) :
                /\ i <= Len(EntrySegments)
                /\ call.ret[1].value.l[i] =
                     PDict(DictPut(ids[i].kv, <<"t", "e", "x", "t">>,
                                   PStr(EscapeQuotes(EntrySegments[i])))))
    ELSE ~call.raised /\ call.ret[1].value = PList(<<>>)


(***************************************************************************)
(* Properties of the invocations of parse_value by                         *)
(* parse_item_column_values.                                               *)
(***************************************************************************)
\* the positions of the columns of cols whose type is supported, ascending
RECURSIVE SupportedPositions(_, _)
SupportedPositions(cols, j) ==
  IF j > Len(cols) THEN <<>>
  ELSE IF cols[j].type \in UnsupportedTypes THEN SupportedPositions(cols, j + 1)
  ELSE <<j>> \o SupportedPositions(cols, j + 1)

\* how often position j occurs in the sequence of invocations
Invocations(j) == Cardinality({k \in 1..Len(call.parsed) : call.parsed[k] = j})

\* C26: a run of parse_item_column_values that returns has invoked
\* parse_value exactly once on every column of a supported type, in order,
\* and a run ended by an exception has done so up to the column that raised;
\* no run invokes it on a column of an unsupported type, so no run enters
\* the formula branch (the column's type is never "formula").
C26_ParsedOncePerSupported ==
  NormalizerDone =>
    Let(SupportedPositions(call.entry.column_values, 1), LAMBDA sup :
      /\ Len(call.parsed) <= Len(sup)
      /\ call.parsed = SubSeq(sup, 1, Len(call.parsed))
      /\ ~call.raised => call.parsed = sup
      /\ \A j \in 1..Len(call.entry.column_values) :
           Let(call.entry.column_values[j], LAMBDA c :
             /\ Invocations(j) <= 1
             /\ (c.type \in UnsupportedTypes) => Invocations(j) = 0
             /\ (c.type = "formula") => Invocations(j) = 0
             /\ (~call.raised /\ c.type \notin UnsupportedTypes) =>
                  Invocations(j) = 1))

\* C26 witness: a returned run over a formula column between two supported
\* columns: parse_value was invoked on the first and the third only
C26_Witness ==
  /\ NormalizerReturned
  /\ Len(call.entry.column_values) = 3
  /\ call.entry.column_values[2].type = "formula"
  /\ call.entry.column_values[2].display_value = PStr(S_null)
  /\ call.parsed = <<1, 3>>


(***************************************************************************)
(* Properties of a second application of parse_value.                      *)
(***************************************************************************)
AppliedTwice == pc = "twice" /\ call.op = "parse_value_again"

\* C27: parse_value applied to the record a first application returned does
\* not fail and returns the value the first application returned.
C27_Idempotent ==
  AppliedTwice =>
    /\ ~call.raised
    /\ call.ret[2].value = call.ret[1].value


(***************************************************************************)
(* Properties of the lock.                                                 *)
(***************************************************************************)
ForOwner(i) == firestore.calls[i].op = "acquire_lock_for_owner"
Granted(i) == ForOwner(i) /\ firestore.calls[i].acquired = TRUE

\* the lock call i was granted has expired at time now
ExpiredAt(i, now) ==
  Let(firestore.calls[i].after, LAMBDA d :
    d.expires_at + d.expiration_seconds <= now)

ReleasedBetween(i, j) ==
  \E k \in (i + 1)..(j - 1) : firestore.calls[k].op = "release_lock"

\* C28: when acquire_lock_for_owner has granted the lock to owner A, a later
\* acquire_lock_for_owner by another owner is granted only if by then the
\* lock of A has expired or release_lock has deleted it, and a call by the
\* owner of the stored, unexpired lock is granted.
C28_MutualExclusion ==
  \A j \in 1..Len(firestore.calls) :
    /\ \A i \in 1..(j - 1) :
         (/\ Granted(i) /\ Granted(j)
          /\ firestore.calls[i].owner # firestore.calls[j].owner) =>
           (ExpiredAt(i, firestore.calls[j].at) \/ ReleasedBetween(i, j))
    /\ (/\ ForOwner(j)
        /\ firestore.calls[j].before # None
        /\ firestore.calls[j].before.owner = firestore.calls[j].owner
        /\ unexpired(firestore.calls[j].before, firestore.calls[j].at)) =>
         Granted(j)
    /\ (ForOwner(j) /\ firestore.calls[j].pc = "returned") =>
         firestore.calls[j].returned[1] = firestore.calls[j].acquired

\* C28 witness: A is granted the lock, B is refused while it is unexpired,
\* and A is granted it again
C28_Witness ==
  /\ Len(firestore.calls) = 3
  /\ Granted(1) /\ firestore.calls[1].owner = "A"
  /\ ForOwner(2) /\ firestore.calls[2].owner = "B"
  /\ firestore.calls[2].acquired = FALSE
  /\ firestore.calls[2].returned = <<FALSE, firestore.calls[1].after>>
  /\ Granted(3) /\ firestore.calls[3].owner = "A"
  /\ ~firestore.calls[3].wrote
  /\ firestore.calls[3].at > firestore.calls[1].at

\* C29: acquire_lock returns True only when its transaction wrote the lock
\* document: on a lock that is held and unexpired it reports failure.
C29_TrueOnlyWhenWritten ==
  \A j \in 1..Len(firestore.calls) :
    (firestore.calls[j].op = "acquire_lock" /\ firestore.calls[j].pc = "returned") =>
      (firestore.calls[j].returned = <<TRUE>> => firestore.calls[j].wrote)


(***************************************************************************)
(* Properties of _execute_with_session.                                    *)
(***************************************************************************)
SessionExited == session.pc \in {"returned", "raised"}

\* the operation was invoked at most max_retries + 1 times
AtMostMaxRetriesPlusOne == Len(session.outcomes) <= session.max_retries + 1

\* every invocation but the last ended with a connection or timeout error
RetriedOnlyOnConnectionErrors ==
  \A k \in 1..(Len(session.outcomes) - 1) :
    session.outcomes[k] \in ConnectionErrors

\* C30: _execute_with_session invokes the operation at most max_retries + 1
\* times, invokes it again only after a connection or timeout error, and
\* when it returns or raises every session it opened has been closed.
C30_SessionsClosed ==
  /\ AtMostMaxRetriesPlusOne
  /\ RetriedOnlyOnConnectionErrors
  /\ SessionExited => session.closed = session.opened


====
